---- MODULE Spec2Model ----
(***************************************************************************)
(* A model of the wayleave PDF processing program: the directory scanner   *)
(* with its processed-folder markers (pdf_scanner.py), the operations of   *)
(* the main window that write PDFs into the scanned tree, and the text     *)
(* extraction and formatting functions of the letter generator.            *)
(***************************************************************************)
EXTENDS Integers, Sequences, FiniteSets, TLC

(***************************************************************************)
(* Bounds of the model.                                                    *)
(***************************************************************************)
\* number of directories of the scanned tree (directory 1 is the root,
\* the parent of directory d is d \div 2)
NumDirs == 3
\* number of scans the user starts
MaxScans == 2

(***************************************************************************)
(* The scanned tree.                                                       *)
(***************************************************************************)
Dirs == 1..NumDirs

\* ScannerThread.folder: the directory the scan starts from
Root == 1

Children(d) == {c \in Dirs : c # Root /\ c \div 2 = d}

RECURSIVE Ancestors(_)
Ancestors(d) == IF d = Root THEN {} ELSE {d \div 2} \cup Ancestors(d \div 2)

Range(s) == {s[i] : i \in 1..Len(s)}

\* Optional[Path]: the absent value
None == "None"

(***************************************************************************)
(* The PDF files the model knows, in the order sorted() gives their paths  *)
(* inside one folder (the same order with and without case folding).  For  *)
(* each file, what the classifier reads from it: keyword hits of its text  *)
(* in the two vocabularies, its word count, whether its images look like a *)
(* map, whether fitz can open it, and which name tokens its file name has. *)
(***************************************************************************)
LetterPdf == "52 Ambleside Road, Lightwater, Surrey, GU18 5UH.pdf"
Print2Pdf == "Print 2.pdf"
PrintPdf == "Print.pdf"

Catalogue == <<
  [name |-> LetterPdf, doc_keywords |-> 2, map_keywords |-> 0,
   word_count |-> 190, is_map_like |-> FALSE, openable |-> TRUE,
   name_map |-> FALSE, name_doc |-> FALSE, name_doc_fill |-> FALSE,
   upper_ext |-> FALSE],
  [name |-> "Agreement.pdf", doc_keywords |-> 8, map_keywords |-> 1,
   word_count |-> 1200, is_map_like |-> FALSE, openable |-> TRUE,
   name_map |-> FALSE, name_doc |-> TRUE, name_doc_fill |-> TRUE,
   upper_ext |-> FALSE],
  [name |-> "Consent Scan.pdf", doc_keywords |-> 6, map_keywords |-> 0,
   word_count |-> 900, is_map_like |-> FALSE, openable |-> FALSE,
   name_map |-> FALSE, name_doc |-> TRUE, name_doc_fill |-> TRUE,
   upper_ext |-> FALSE],
  [name |-> "Layout Plan.pdf", doc_keywords |-> 0, map_keywords |-> 4,
   word_count |-> 40, is_map_like |-> TRUE, openable |-> TRUE,
   name_map |-> TRUE, name_doc |-> FALSE, name_doc_fill |-> FALSE,
   upper_ext |-> FALSE],
  [name |-> "Notes.PDF", doc_keywords |-> 1, map_keywords |-> 1,
   word_count |-> 50, is_map_like |-> FALSE, openable |-> TRUE,
   name_map |-> FALSE, name_doc |-> FALSE, name_doc_fill |-> FALSE,
   upper_ext |-> TRUE],
  [name |-> "Plan Sketch.pdf", doc_keywords |-> 0, map_keywords |-> 0,
   word_count |-> 10, is_map_like |-> FALSE, openable |-> TRUE,
   name_map |-> TRUE, name_doc |-> FALSE, name_doc_fill |-> FALSE,
   upper_ext |-> FALSE],
  [name |-> Print2Pdf, doc_keywords |-> 2, map_keywords |-> 0,
   word_count |-> 190, is_map_like |-> FALSE, openable |-> TRUE,
   name_map |-> FALSE, name_doc |-> FALSE, name_doc_fill |-> FALSE,
   upper_ext |-> FALSE],
  [name |-> PrintPdf, doc_keywords |-> 0, map_keywords |-> 0,
   word_count |-> 0, is_map_like |-> TRUE, openable |-> TRUE,
   name_map |-> FALSE, name_doc |-> FALSE, name_doc_fill |-> FALSE,
   upper_ext |-> FALSE],
  [name |-> "Route Survey.pdf", doc_keywords |-> 4, map_keywords |-> 4,
   word_count |-> 200, is_map_like |-> FALSE, openable |-> TRUE,
   name_map |-> FALSE, name_doc |-> FALSE, name_doc_fill |-> FALSE,
   upper_ext |-> FALSE],
  [name |-> "Site Record.pdf", doc_keywords |-> 3, map_keywords |-> 5,
   word_count |-> 150, is_map_like |-> FALSE, openable |-> TRUE,
   name_map |-> FALSE, name_doc |-> FALSE, name_doc_fill |-> FALSE,
   upper_ext |-> FALSE],
  [name |-> "Tenancy Terms.pdf", doc_keywords |-> 5, map_keywords |-> 3,
   word_count |-> 200, is_map_like |-> FALSE, openable |-> TRUE,
   name_map |-> FALSE, name_doc |-> FALSE, name_doc_fill |-> FALSE,
   upper_ext |-> FALSE],
  [name |-> "Wayleave Copy.pdf", doc_keywords |-> 8, map_keywords |-> 0,
   word_count |-> 1200, is_map_like |-> FALSE, openable |-> TRUE,
   name_map |-> FALSE, name_doc |-> TRUE, name_doc_fill |-> FALSE,
   upper_ext |-> FALSE] >>

PdfNames == {Catalogue[i].name : i \in 1..Len(Catalogue)}

PdfInfo(pdf) == CHOOSE r \in Range(Catalogue) : r.name = pdf

\* the files the program itself writes into the tree
GeneratedPdfs == {LetterPdf, Print2Pdf, PrintPdf}

(***************************************************************************)
(* PDFType and PDFContent (the classifier).                                *)
(***************************************************************************)
DOCUMENT == "document"
MAP == "map"
UNKNOWN == "unknown"

\* extract_text: the text of the PDF, "" when it cannot be opened; the
\* model keeps of the text what the classifier reads of it
extract_text(pdf) ==
  IF PdfInfo(pdf).openable
    THEN [doc_keywords |-> PdfInfo(pdf).doc_keywords,
          map_keywords |-> PdfInfo(pdf).map_keywords,
          word_count |-> PdfInfo(pdf).word_count]
    ELSE [doc_keywords |-> 0, map_keywords |-> 0, word_count |-> 0]

\* analyze_image_content: (False, 0.0) when the PDF cannot be opened
analyze_image_content(pdf) ==
  IF PdfInfo(pdf).openable THEN PdfInfo(pdf).is_map_like ELSE FALSE

pdf_type_of_scores_without_threshold(doc_keyword_count, map_keyword_count) ==
  IF map_keyword_count > doc_keyword_count
    THEN MAP
    ELSE IF doc_keyword_count > map_keyword_count
           THEN DOCUMENT
           ELSE UNKNOWN

\* the decision at the end of analyze_pdf_type
pdf_type_of_scores(doc_keyword_count, map_keyword_count) ==
  IF map_keyword_count > doc_keyword_count /\ map_keyword_count >= 3
    THEN MAP
    ELSE IF doc_keyword_count > map_keyword_count /\ doc_keyword_count >= 3
           THEN DOCUMENT
           ELSE UNKNOWN

analyze_pdf_type(pdf) ==
  LET text == extract_text(pdf)
      is_map_like == analyze_image_content(pdf)
      doc1 == text.doc_keywords + (IF PdfInfo(pdf).name_doc THEN 2 ELSE 0)
      map1 == text.map_keywords + (IF PdfInfo(pdf).name_map THEN 2 ELSE 0)
                                + (IF is_map_like THEN 3 ELSE 0)
      doc2 == doc1 + (IF text.word_count > 300 THEN 2 ELSE 0)
      map2 == map1 + (IF text.word_count <= 300 /\ text.word_count < 100
                         /\ is_map_like THEN 2 ELSE 0)
  IN  pdf_type_of_scores(doc2, map2)

(***************************************************************************)
(* State.                                                                  *)
(***************************************************************************)
VARIABLES
  files,             \* the file system: the PDF files of each directory
  marker,            \* the file system: whether the directory holds .processed
  listable,          \* the file system: whether the directory can be listed
  caseInsensitive,   \* the file system: whether glob patterns ignore case
  selectEnabled,     \* HeaderSection.select_button is enabled
  pc,                \* where the ScannerThread is
  stack,             \* directories scan_directory has still to be called on
  cur,               \* current_dir of the running scan_directory call
  curPair,           \* pdf_pair of the running scan_directory call
  results,           \* results of the running scan
  raised,            \* an exception left scan_directory
  emitted,           \* the list scan_finished was emitted with
  resultTree,        \* ResultsSection.result_tree: the entries displayed
  scans,             \* number of scans started
  markerAtStart,     \* history: marker when the running scan started
  markerWrites,      \* history: number of times .processed was touched
  lastScan,          \* history: the entries of the last finished scan
  prevScan,          \* history: the entries of the scan before it
  finished,          \* history: number of scans finished
  dirty,             \* history: a PDF was written since the last scan started
  writesBetween,     \* history: dirty, as of the last two finished scans
  content,           \* the text of a document handed to an extractor
  extractor,         \* the extractor called on content, None before the call
  outcome,           \* what the extractor returned or raised
  filename,          \* generate_filename of the address returned
  validated,         \* validate_postcode was called on the postcode returned
  postcode_valid,    \* what validate_postcode returned
  address_to_use,    \* the address record handed to the formatter
  other_postcode,    \* the postcode of a second record with the same lines
  filenames,         \* generate_filename of the record, twice, and of the second
  formatted_address, \* what format_address returned
  names_to_use,      \* the names handed to format_names
  override_salutation,\* the override handed with them, if any
  formatted_names,   \* what format_names returned or raised
  salutation_found,  \* what get_first_names returned
  wayleave_type,     \* the letter type handed to generate_letter
  doc_page_count,    \* the page count handed to it
  edited_names,      \* override_names, if any
  edited_address,    \* override_address, if any
  letter,            \* what generate_letter returned or raised
  second_letter,     \* what generate_second_letter returned or raised
  classified_pdf,    \* the PDF handed to analyze_pdf_type
  classified_type,   \* what analyze_pdf_type returned, None before the call
  wayleave_text,     \* the text handed to identify_wayleave_type
  identified_type,   \* what identify_wayleave_type returned, None before
  output_dir,        \* the file system: the directory of the letter PDF
  output_pdf_exists, \* the file system: a file stands at output_path
  word_killer,       \* how terminate_word_processes can end Word
  convert_pc,        \* where convert_pdf_letter is
  attempts,          \* number of calls of convert it has made
  docx_created,      \* history: number of calls of create_word_letter
  terminations,      \* history: number of calls of terminate_word_processes
  attempt_succeeded, \* history: a call of convert returned
  converted,         \* how convert_pdf_letter ended, None before
  success_count,     \* generate_all_letters: the letters it counts as generated
  error_count        \* generate_all_letters: the letters it counts as failed

fsVars == <<files, marker, listable, caseInsensitive>>
threadVars == <<pc, stack, cur, curPair, results, raised, emitted>>
guiVars == <<selectEnabled, resultTree, scans>>
historyVars == <<markerAtStart, markerWrites, lastScan, prevScan,
                 finished, dirty, writesBetween>>
scanVars == <<fsVars, threadVars, guiVars, historyVars>>
extractVars == <<content, extractor, outcome, filename, validated, postcode_valid>>
formatVars == <<address_to_use, other_postcode, filenames, formatted_address,
                names_to_use, override_salutation, formatted_names,
                salutation_found>>
letterVars == <<wayleave_type, doc_page_count, edited_names, edited_address,
                letter, second_letter>>
classifyVars == <<classified_pdf, classified_type, wayleave_text, identified_type>>
convertVars == <<output_dir, output_pdf_exists, word_killer, convert_pc, attempts,
                 docx_created, terminations, attempt_succeeded, converted,
                 success_count, error_count>>
textVars == <<formatVars, letterVars, classifyVars, convertVars>>
vars == <<scanVars, extractVars, textVars>>

(***************************************************************************)
(* PDFPair and PDFScanner.                                                 *)
(***************************************************************************)
PDFPair(document_pdf, map_pdf, additional_pdfs) ==
  [document_pdf |-> document_pdf, map_pdf |-> map_pdf,
   additional_pdfs |-> additional_pdfs]

\* directory.glob("*.pdf") and directory.glob("*.PDF")
glob_lower(directory) ==
  {f \in files[directory] : caseInsensitive \/ ~PdfInfo(f).upper_ext}

glob_upper(directory) ==
  {f \in files[directory] : caseInsensitive \/ PdfInfo(f).upper_ext}

Copies(f, n) == [i \in 1..n |-> f]

\* sorted(pdfs), pdfs being the matches of the two patterns one after the other
RECURSIVE sorted_pdfs_from(_, _)
sorted_pdfs_from(i, directory) ==
  IF i > Len(Catalogue) THEN <<>>
  ELSE LET f == Catalogue[i].name
           n == (IF f \in glob_lower(directory) THEN 1 ELSE 0)
                + (IF f \in glob_upper(directory) THEN 1 ELSE 0)
       IN  Copies(f, n) \o sorted_pdfs_from(i + 1, directory)

sorted_pdfs(directory) == sorted_pdfs_from(1, directory)

\* first_pass without the tests that the map and the document are still None
RECURSIVE first_pass_overwriting(_, _, _)
first_pass_overwriting(pdfs, i, pair) ==
  IF i > Len(pdfs) THEN pair
  ELSE LET pdf == pdfs[i]
           pdf_type == analyze_pdf_type(pdf)
       IN  IF pdf_type = MAP
             THEN first_pass_overwriting(pdfs, i + 1,
                                         [pair EXCEPT !.map_pdf = pdf])
             ELSE IF pdf_type = DOCUMENT
                    THEN first_pass_overwriting(pdfs, i + 1,
                           [pair EXCEPT !.document_pdf = pdf])
                    ELSE first_pass_overwriting(pdfs, i + 1,
                           [pair EXCEPT !.additional_pdfs = Append(@, pdf)])

\* the first pass of get_pdf_files over pdfs[i..]
RECURSIVE first_pass(_, _, _)
first_pass(pdfs, i, pair) ==
  IF i > Len(pdfs) THEN pair
  ELSE LET pdf == pdfs[i]
           pdf_type == analyze_pdf_type(pdf)
       IN  IF pdf_type = MAP /\ pair.map_pdf = None
             THEN first_pass(pdfs, i + 1, [pair EXCEPT !.map_pdf = pdf])
             ELSE IF pdf_type = DOCUMENT /\ pair.document_pdf = None
                    THEN first_pass(pdfs, i + 1,
                                    [pair EXCEPT !.document_pdf = pdf])
                    ELSE first_pass(pdfs, i + 1,
                           [pair EXCEPT !.additional_pdfs = Append(@, pdf)])

\* list.remove at index i
RemoveAt(s, i) == SubSeq(s, 1, i - 1) \o SubSeq(s, i + 1, Len(s))

\* the index of the first element of s that is in the set, 0 without one
FirstIndex(s, set) ==
  IF \E i \in 1..Len(s) : s[i] \in set
    THEN CHOOSE i \in 1..Len(s) :
           s[i] \in set /\ \A j \in 1..(i - 1) : s[j] \notin set
    ELSE 0

\* the PDFs whose names have a filename pattern of the second pass
has_map_name == {pdf \in PdfNames : PdfInfo(pdf).name_map}
has_document_name == {pdf \in PdfNames : PdfInfo(pdf).name_doc_fill}

fill_map(pair) ==
  LET i == FirstIndex(pair.additional_pdfs, has_map_name)
  IN  IF pair.map_pdf = None /\ i > 0
        THEN [pair EXCEPT !.map_pdf = pair.additional_pdfs[i],
                          !.additional_pdfs = RemoveAt(@, i)]
        ELSE pair

fill_document(pair) ==
  LET i == FirstIndex(pair.additional_pdfs, has_document_name)
  IN  IF pair.document_pdf = None /\ i > 0
        THEN [pair EXCEPT !.document_pdf = pair.additional_pdfs[i],
                          !.additional_pdfs = RemoveAt(@, i)]
        ELSE pair

\* the second pass of get_pdf_files
fill_gaps(pair) ==
  IF pair.additional_pdfs # <<>> THEN fill_document(fill_map(pair)) ELSE pair

get_pdf_files(directory) ==
  IF ~listable[directory]
    THEN PDFPair(None, None, <<>>)
    ELSE LET pdfs == sorted_pdfs(directory)
         IN  IF pdfs = <<>>
               THEN PDFPair(None, None, <<>>)
               ELSE fill_gaps(first_pass(pdfs, 1, PDFPair(None, None, <<>>)))

is_processed_folder(folder) == marker[folder]

\* has_result with rescans skipping the folders already marked
has_result_skipping_processed(pdf_pair, current_dir) ==
  /\ \/ pdf_pair.document_pdf # None
     \/ pdf_pair.map_pdf # None
     \/ pdf_pair.additional_pdfs # <<>>
  /\ ~is_processed_folder(current_dir)

\* has_result without the test of the marker
has_result_without_marker(pdf_pair, current_dir) ==
  \/ pdf_pair.document_pdf # None
  \/ pdf_pair.map_pdf # None
  \/ pdf_pair.additional_pdfs # <<>>

\* the condition of scan_directory for adding current_dir to the results
\* the condition taken as true for every folder
has_result_of_any_folder(pdf_pair, current_dir) == TRUE

has_result(pdf_pair, current_dir) ==
  \/ pdf_pair.document_pdf # None
  \/ pdf_pair.map_pdf # None
  \/ pdf_pair.additional_pdfs # <<>>
  \/ is_processed_folder(current_dir)

\* str(current_dir.relative_to(root_dir)): the model names a path by its
\* directory
relative_path(current_dir) == current_dir

\* must_mark without the test of the marker
must_mark_always(current_dir) == TRUE

\* scan_directory marks current_dir when it is not marked yet
must_mark(current_dir) == ~is_processed_folder(current_dir)

\* the orders in which iterdir may give the subdirectories
Orders(S) ==
  {s \in [1..Cardinality(S) -> S] : \A i, j \in DOMAIN s : i # j => s[i] # s[j]}

(***************************************************************************)
(* The folders a tree is made of when the program starts.                  *)
(***************************************************************************)
Folder(pdfs, has_marker, can_list) ==
  [files |-> pdfs, marker |-> has_marker, listable |-> can_list]

InitialFolders ==
  { Folder({}, FALSE, TRUE),
    Folder({}, TRUE, TRUE),
    Folder({"Agreement.pdf", "Consent Scan.pdf", "Layout Plan.pdf",
            "Notes.PDF", "Wayleave Copy.pdf"}, FALSE, TRUE),
    Folder({"Consent Scan.pdf", "Notes.PDF", "Plan Sketch.pdf"}, TRUE, TRUE),
    Folder({"Agreement.pdf", "Layout Plan.pdf"}, FALSE, FALSE) }

(***************************************************************************)
(* What an extractor hands back: the exception it raised, None when it     *)
(* returned, and the dict it returned.                                     *)
(***************************************************************************)
Address(address_lines, postcode) ==
  [address_lines |-> address_lines, postcode |-> postcode]
Returned(full_names, salutation_name, address) ==
  [raised |-> None, full_names |-> full_names,
   salutation_name |-> salutation_name, address |-> address]
Raised(exception) ==
  [raised |-> exception, full_names |-> <<>>, salutation_name |-> <<>>,
   address |-> Address(<<>>, <<>>)]


\* no scan has been started
ScannerIdle ==
  /\ selectEnabled = TRUE
  /\ pc = "idle"
  /\ stack = <<>>
  /\ cur = Root
  /\ curPair = PDFPair(None, None, <<>>)
  /\ results = <<>>
  /\ raised = FALSE
  /\ emitted = <<>>
  /\ resultTree = <<>>
  /\ scans = 0
  /\ markerAtStart = marker
  /\ markerWrites = [d \in Dirs |-> 0]
  /\ lastScan = {}
  /\ prevScan = {}
  /\ finished = 0
  /\ dirty = FALSE
  /\ writesBetween = FALSE

\* no text has been handed to an extractor
ExtractIdle ==
  /\ content = <<>>
  /\ extractor = None
  /\ outcome = Raised(None)
  /\ filename = <<>>
  /\ validated = FALSE
  /\ postcode_valid = FALSE

\* nothing has been handed to the formatter
FormatIdle ==
  /\ address_to_use = Address(<<>>, <<>>)
  /\ other_postcode = <<>>
  /\ filenames = <<>>
  /\ formatted_address = <<>>
  /\ names_to_use = <<>>
  /\ override_salutation = <<>>
  /\ formatted_names = <<>>
  /\ salutation_found = <<>>

\* no letter has been asked for
LetterIdle ==
  /\ wayleave_type = "annual"
  /\ doc_page_count = 1
  /\ edited_names = <<>>
  /\ edited_address = <<>>
  /\ letter = <<>>
  /\ second_letter = <<>>

\* nothing has been handed to a classifier
ClassifyIdle ==
  /\ classified_pdf = LetterPdf
  /\ classified_type = None
  /\ wayleave_text = <<>>
  /\ identified_type = None

\* convert_pdf_letter has not been called
ConvertIdle ==
  /\ output_dir = "writable"
  /\ output_pdf_exists = FALSE
  /\ word_killer = "psutil"
  /\ convert_pc = "create"
  /\ attempts = 0
  /\ docx_created = 0
  /\ terminations = 0
  /\ attempt_succeeded = FALSE
  /\ converted = None
  /\ success_count = 0
  /\ error_count = 0

Init ==
  /\ \E tree \in [Dirs -> InitialFolders] :
       /\ files = [d \in Dirs |-> tree[d].files]
       /\ marker = [d \in Dirs |-> tree[d].marker]
       /\ listable = [d \in Dirs |-> tree[d].listable]
  /\ caseInsensitive \in BOOLEAN
  /\ ScannerIdle
  /\ ExtractIdle
  /\ FormatIdle
  /\ LetterIdle
  /\ ClassifyIdle
  /\ ConvertIdle

(***************************************************************************)
(* Starting a scan: HeaderSection.select_home_folder, which the disabled   *)
(* button does not run, then MainWindow.on_folder_selected and scan_folder.*)
(***************************************************************************)
\* scan_folder without set_button_enabled(False): the button stays enabled
\* and starts a scan whatever the thread is doing
SelectHomeFolderButtonLeftEnabled ==
  /\ scans < MaxScans
  /\ resultTree' = <<>>
  /\ selectEnabled' = TRUE
  /\ pc' = "visit"
  /\ stack' = <<Root>>
  /\ results' = <<>>
  /\ raised' = FALSE
  /\ scans' = scans + 1
  /\ markerAtStart' = marker
  /\ UNCHANGED <<extractVars, textVars, fsVars, cur, curPair, emitted, markerWrites, lastScan,
                 prevScan, finished, dirty, writesBetween>>

SelectHomeFolder ==
  /\ selectEnabled
  /\ scans < MaxScans
  /\ resultTree' = <<>>
  /\ selectEnabled' = FALSE
  /\ pc' = "visit"
  /\ stack' = <<Root>>
  /\ results' = <<>>
  /\ raised' = FALSE
  /\ scans' = scans + 1
  /\ markerAtStart' = marker
  /\ UNCHANGED <<extractVars, textVars, fsVars, cur, curPair, emitted, markerWrites, lastScan,
                 prevScan, finished, dirty, writesBetween>>

(***************************************************************************)
(* PDFScanner.scan_directory, one call per directory of the stack:         *)
(* get_pdf_files, then the result entry and the marker, then the           *)
(* subdirectories.                                                         *)
(***************************************************************************)
ClassifyFolder ==
  /\ pc = "visit"
  /\ stack # <<>>
  /\ cur' = Head(stack)
  /\ stack' = Tail(stack)
  /\ curPair' = get_pdf_files(Head(stack))
  /\ pc' = "classified"
  /\ UNCHANGED <<extractVars, textVars, fsVars, results, raised, emitted, guiVars, historyVars>>

RecordFolder ==
  /\ pc = "classified"
  /\ IF has_result(curPair, cur)
       THEN /\ results' = Append(results, [path |-> relative_path(cur),
                                           pair |-> curPair])
            /\ IF must_mark(cur)
                 THEN /\ marker' = [marker EXCEPT ![cur] = TRUE]
                      /\ markerWrites' = [markerWrites EXCEPT ![cur] = @ + 1]
                 ELSE UNCHANGED <<marker, markerWrites>>
       ELSE UNCHANGED <<results, marker, markerWrites>>
  /\ pc' = "recorded"
  /\ UNCHANGED <<extractVars, textVars, files, listable, caseInsensitive, stack, cur, curPair, raised,
                 emitted, guiVars, markerAtStart, lastScan, prevScan, finished,
                 dirty, writesBetween>>

\* ListSubdirs without the handlers of scan_directory: the error of iterdir
\* leaves scan_directory and ends the scan
ListSubdirsUnhandled ==
  /\ pc = "recorded"
  /\ IF listable[cur]
       THEN /\ \E subdirs \in Orders(Children(cur)) : stack' = subdirs \o stack
            /\ UNCHANGED raised
       ELSE /\ stack' = <<>>
            /\ raised' = TRUE
  /\ pc' = "visit"
  /\ UNCHANGED <<extractVars, textVars, fsVars, cur, curPair, results, emitted, guiVars, historyVars>>

ListSubdirs ==
  /\ pc = "recorded"
  /\ IF listable[cur]
       THEN \E subdirs \in Orders(Children(cur)) : stack' = subdirs \o stack
       ELSE stack' = stack
  /\ pc' = "visit"
  /\ UNCHANGED <<extractVars, textVars, fsVars, cur, curPair, results, raised, emitted, guiVars,
                 historyVars>>

(***************************************************************************)
(* ScannerThread.run: the end of the scan.                                 *)
(***************************************************************************)
ThreadFinish ==
  /\ pc = "visit"
  /\ stack = <<>>
  /\ emitted' = IF raised THEN <<>> ELSE results
  /\ pc' = "emitted"
  /\ cur' = Root
  /\ curPair' = PDFPair(None, None, <<>>)
  /\ results' = <<>>
  /\ UNCHANGED <<extractVars, textVars, fsVars, stack, raised, guiVars, historyVars>>

(***************************************************************************)
(* MainWindow.handle_scan_results and ResultsSection.display_results.      *)
(***************************************************************************)
\* sorted(results, key=lambda x: x[0])
RECURSIVE sorted_results_from(_, _)
sorted_results_from(d, entries) ==
  IF d > NumDirs THEN <<>>
  ELSE SelectSeq(entries, LAMBDA e : e.path = d)
       \o sorted_results_from(d + 1, entries)

\* the folder item of an entry: the entry and whether the folder holds the
\* marker when the item is made
create_folder_item(entry) ==
  [path |-> entry.path, pair |-> entry.pair,
   is_processed |-> is_processed_folder(entry.path)]

\* ResultsSection.display_results: one folder item for each entry, sorted
display_results(entries) ==
  [i \in 1..Len(entries) |->
     create_folder_item(sorted_results_from(1, entries)[i])]

\* handle_scan_results without set_button_enabled(True)
HandleScanResultsButtonLeftDisabled ==
  /\ pc = "emitted"
  /\ selectEnabled' = FALSE
  /\ resultTree' = display_results(emitted)
  /\ pc' = "idle"
  /\ prevScan' = lastScan
  /\ lastScan' = Range(emitted)
  /\ finished' = finished + 1
  /\ writesBetween' = dirty
  /\ dirty' = FALSE
  /\ emitted' = <<>>
  /\ UNCHANGED <<extractVars, textVars, fsVars, stack, cur, curPair, results, raised, scans,
                 markerAtStart, markerWrites>>

HandleScanResults ==
  /\ pc = "emitted"
  /\ selectEnabled' = TRUE
  /\ resultTree' = display_results(emitted)
  /\ pc' = "idle"
  /\ prevScan' = lastScan
  /\ lastScan' = Range(emitted)
  /\ finished' = finished + 1
  /\ writesBetween' = dirty
  /\ dirty' = FALSE
  /\ emitted' = <<>>
  /\ UNCHANGED <<extractVars, textVars, fsVars, stack, cur, curPair, results, raised, scans,
                 markerAtStart, markerWrites>>

(***************************************************************************)
(* The operations of the main window that write PDFs into the tree.        *)
(***************************************************************************)
\* the PDF items of the result tree: the document and the map of each entry
TreePdfPaths ==
  UNION {({resultTree[i].pair.document_pdf, resultTree[i].pair.map_pdf}
            \ {None}) : i \in 1..Len(resultTree)}

\* MainWindow.merge_and_compress_pdfs: merges the PDFs of the result tree
\* into Print.pdf of the selected folder; pdf_handlers.merge_and_compress_pdfs
\* writes nothing when one of them cannot be opened
MergeAndCompressPdfs ==
  /\ TreePdfPaths # {}
  /\ \A f \in TreePdfPaths : PdfInfo(f).openable
  /\ PrintPdf \notin files[Root]
  /\ files' = [files EXCEPT ![Root] = @ \cup {PrintPdf}]
  /\ dirty' = TRUE
  /\ UNCHANGED <<extractVars, textVars, marker, listable, caseInsensitive, threadVars, guiVars,
                 markerAtStart, markerWrites, lastScan, prevScan, finished,
                 writesBetween>>

\* the folders of the documents of the result tree that can be read
DocumentFolders ==
  {resultTree[i].path : i \in
     {j \in 1..Len(resultTree) :
        /\ resultTree[j].pair.document_pdf # None
        /\ PdfInfo(resultTree[j].pair.document_pdf).openable}}

\* LetterSection.generate_all_letters: for every document whose details
\* could be extracted and whose letter could be converted (the folders
\* done), the letter PDF is written next to the document; the letters are
\* then merged into Print 2.pdf of the selected folder
GenerateAllLetters ==
  /\ \E done \in (SUBSET DocumentFolders) \ {{}} :
       /\ files' = [d \in Dirs |->
                      files[d] \cup (IF d \in done THEN {LetterPdf} ELSE {})
                               \cup (IF d = Root THEN {Print2Pdf} ELSE {})]
       /\ files' # files
  /\ dirty' = TRUE
  /\ UNCHANGED <<extractVars, textVars, marker, listable, caseInsensitive, threadVars, guiVars,
                 markerAtStart, markerWrites, lastScan, prevScan, finished,
                 writesBetween>>

(***************************************************************************)
(* The program.                                                            *)
(***************************************************************************)
Next ==
  \/ SelectHomeFolder
  \/ ClassifyFolder
  \/ RecordFolder
  \/ ListSubdirs
  \/ ThreadFinish
  \/ HandleScanResults
  \/ MergeAndCompressPdfs
  \/ GenerateAllLetters

Spec == Init /\ [][Next]_vars

(***************************************************************************)
(* Properties of the scanner.                                              *)
(***************************************************************************)
Paths(entries) == {entries[i].path : i \in 1..Len(entries)}

PairPdfs(pair) ==
  ({pair.document_pdf, pair.map_pdf} \ {None}) \cup Range(pair.additional_pdfs)

\* the directory can be listed and holds a PDF file
HasPdfs(d) == listable[d] /\ files[d] # {}

\* scan_directory is called on the directory: the directories above it can
\* all be listed
Visited(d) == \A a \in Ancestors(d) : listable[a]

\* C1: two scans in a row of a tree in which nothing but the markers of the
\* first scan changed return the same set of entries: the same relative
\* paths, each with the same PDFPair.
C1_IdempotentScan ==
  (finished >= 2 /\ ~writesBetween) => lastScan = prevScan

\* a second scan finished after a first one wrote markers, and found folders
C1_Witness ==
  /\ finished >= 2
  /\ ~writesBetween
  /\ lastScan # {}
  /\ \E d \in Dirs : markerWrites[d] = 1 /\ \E e \in lastScan : e.path = d

\* C2: over all scans, .processed is written at most once in a folder, and
\* no step of the program removes or touches again a marker that exists.
C2_MarkerWrittenOnce ==
  [][\A d \in Dirs :
       /\ markerWrites'[d] <= 1
       /\ marker[d] => (marker'[d] /\ markerWrites'[d] = markerWrites[d])]_vars

\* a folder marked by one scan was visited again by a later scan, and a
\* folder marked before the program started was scanned too
C2_Witness ==
  /\ finished >= 2
  /\ \E d \in Dirs : markerWrites[d] = 1 /\ \E e \in lastScan : e.path = d
  /\ \E d \in Dirs : markerWrites[d] = 0 /\ \E e \in lastScan : e.path = d

\* C3: when a scan ends, a directory is in the result if and only if
\* scan_directory was called on it and it holds a PDF or held the marker
\* before the scan; the directories below an omitted directory are scanned.
C3_IncludedIffPdfsOrMarker ==
  (pc = "emitted" /\ ~raised) =>
     \A d \in Dirs :
        d \in Paths(emitted) <=> (Visited(d) /\ (HasPdfs(d) \/ markerAtStart[d]))

\* the root, without PDF or marker, is omitted; a directory below it is in the
\* result for its PDFs, another one for its marker alone
C3_Witness ==
  /\ pc = "emitted"
  /\ Root \notin Paths(emitted)
  /\ \E d \in Children(Root) : d \in Paths(emitted) /\ HasPdfs(d)
  /\ \E d \in Children(Root) :
        d \in Paths(emitted) /\ ~HasPdfs(d) /\ markerAtStart[d]

\* the PDFs the two glob patterns of get_pdf_files give, with repetitions
NumberOfMatches(d) == Cardinality(glob_lower(d)) + Cardinality(glob_upper(d))

NumberSet(pdf) == IF pdf = None THEN 0 ELSE 1

\* C4: the PDFPair of a folder has one document at most and one map at most,
\* both PDFs of the folder, and every other PDF the folder gave is in
\* additional_pdfs, also the ones classified as document or map.
C4_OneDocumentOneMap ==
  \A i \in 1..Len(results) :
     LET d == results[i].path
         pair == results[i].pair
     IN  /\ PairPdfs(pair) = (IF listable[d] THEN files[d] ELSE {})
         /\ Len(pair.additional_pdfs)
              = NumberOfMatches(d) * (IF listable[d] THEN 1 ELSE 0)
                - NumberSet(pair.document_pdf) - NumberSet(pair.map_pdf)
         /\ \A f \in files[d] :
              (listable[d] /\ pair.document_pdf # f /\ pair.map_pdf # f)
                 => f \in Range(pair.additional_pdfs)

\* a folder with a document, and a further PDF classified as document in
\* additional_pdfs
C4_Witness ==
  \E i \in 1..Len(results) :
     /\ results[i].pair.document_pdf # None
     /\ \E f \in Range(results[i].pair.additional_pdfs) :
           f # results[i].pair.document_pdf /\ analyze_pdf_type(f) = DOCUMENT

\* a directory that cannot be listed, or a PDF that cannot be opened
Failure(d) == ~listable[d] \/ \E f \in files[d] : ~PdfInfo(f).openable

\* C5: with directories that cannot be listed and PDFs that cannot be opened
\* in the tree, the scan ends without an exception leaving scan_directory,
\* and its result has the entry of every folder with PDFs that can be listed
\* and reached.
C5_FailuresDoNotAbort ==
  (pc = "emitted" /\ \E d \in Dirs : Failure(d)) =>
     /\ ~raised
     /\ \A d \in Dirs :
          (Visited(d) /\ HasPdfs(d)) =>
             \E i \in 1..Len(emitted) :
                emitted[i].path = d /\ PairPdfs(emitted[i].pair) = files[d]

\* a scan ended on a tree with a directory that cannot be listed and a folder
\* that holds a PDF that cannot be opened, and returned another folder
C5_Witness ==
  /\ pc = "emitted"
  /\ \E d \in Dirs : ~listable[d] /\ Visited(d)
  /\ \E d \in Dirs : \E f \in files[d] :
        ~PdfInfo(f).openable /\ d \in Paths(emitted)
  /\ \E d \in Dirs : ~Failure(d) /\ HasPdfs(d) /\ d \in Paths(emitted)

\* C6: no entry of a scan has a PDF the program wrote itself (Print.pdf,
\* Print 2.pdf, a generated letter) as document, map or additional PDF.
C6_GeneratedPdfsNotScanned ==
  \A i \in 1..Len(results) : PairPdfs(results[i].pair) \cap GeneratedPdfs = {}

(***************************************************************************)
(* Text.  A str is the sequence of its characters, so that searching,      *)
(* trimming, splitting and matching work on it as the str methods and the  *)
(* re module do.                                                           *)
(***************************************************************************)
ascii_lowercase ==
  <<"a", "b", "c", "d", "e", "f", "g", "h", "i", "j", "k", "l", "m",
    "n", "o", "p", "q", "r", "s", "t", "u", "v", "w", "x", "y", "z">>
ascii_uppercase ==
  <<"A", "B", "C", "D", "E", "F", "G", "H", "I", "J", "K", "L", "M",
    "N", "O", "P", "Q", "R", "S", "T", "U", "V", "W", "X", "Y", "Z">>
digits == {"0", "1", "2", "3", "4", "5", "6", "7", "8", "9"}
whitespace == {" ", "\n", "\t"}

\* the character KELVIN SIGN: re.IGNORECASE lets [A-Z] match it as a
\* case variant of K, and str.upper leaves it as it is
KelvinSign == "U+212A"

MinOf(S) == CHOOSE x \in S : \A y \in S : x <= y
MaxOf(S) == CHOOSE x \in S : \A y \in S : x >= y

upper_char(c) ==
  IF c \in Range(ascii_lowercase)
    THEN ascii_uppercase[CHOOSE i \in 1..26 : ascii_lowercase[i] = c]
    ELSE c
lower_char(c) ==
  IF c \in Range(ascii_uppercase)
    THEN ascii_lowercase[CHOOSE i \in 1..26 : ascii_uppercase[i] = c]
    ELSE c

\* str.upper, str.lower, str.capitalize
upper(s) == [i \in 1..Len(s) |-> upper_char(s[i])]
lower(s) == [i \in 1..Len(s) |-> lower_char(s[i])]
capitalize(s) ==
  [i \in 1..Len(s) |-> IF i = 1 THEN upper_char(s[i]) ELSE lower_char(s[i])]

\* s[i:] starts with the literal
MatchesAt(s, i, literal) ==
  /\ i >= 1
  /\ i + Len(literal) - 1 <= Len(s)
  /\ \A j \in 1..Len(literal) : s[i + j - 1] = literal[j]

\* str.find from index start: the first index of the literal, 0 without one
find(s, literal, start) ==
  LET found == {i \in start..Len(s) : MatchesAt(s, i, literal)}
  IN  IF found = {} THEN 0 ELSE MinOf(found)

\* the operator in of two strs
contains(s, literal) == literal = <<>> \/ find(s, literal, 1) > 0

endswith(s, literal) == MatchesAt(s, Len(s) - Len(literal) + 1, literal)

isspace(s) == s # <<>> /\ \A i \in 1..Len(s) : s[i] \in whitespace

strip(s) ==
  LET kept == {i \in 1..Len(s) : s[i] \notin whitespace}
  IN  IF kept = {} THEN <<>> ELSE SubSeq(s, MinOf(kept), MaxOf(kept))

\* the length of the run of whitespace that starts at index i
WhitespaceRun(s, i) ==
  LET stops == {j \in i..Len(s) : s[j] \notin whitespace}
  IN  IF i > Len(s) THEN 0
      ELSE IF stops = {} THEN Len(s) - i + 1
      ELSE MinOf(stops) - i

\* str.split(sep) for a separator of one character
RECURSIVE split(_, _)
split(s, sep) ==
  LET i == find(s, <<sep>>, 1)
  IN  IF i = 0 THEN <<s>>
      ELSE <<SubSeq(s, 1, i - 1)>> \o split(SubSeq(s, i + 1, Len(s)), sep)

\* str.split(): the words between runs of whitespace
RECURSIVE split_words(_)
split_words(s) ==
  LET t == SubSeq(s, WhitespaceRun(s, 1) + 1, Len(s))
      ends == {j \in 1..Len(t) : t[j] \in whitespace}
      n == IF ends = {} THEN Len(t) ELSE MinOf(ends) - 1
  IN  IF t = <<>> THEN <<>>
      ELSE <<SubSeq(t, 1, n)>> \o split_words(SubSeq(t, n + 1, Len(t)))

\* sep.join(parts)
RECURSIVE join(_, _)
join(parts, sep) ==
  IF parts = <<>> THEN <<>>
  ELSE IF Len(parts) = 1 THEN parts[1]
  ELSE parts[1] \o sep \o join(Tail(parts), sep)

\* str.replace(old, new): the occurrences of old from left to right
RECURSIVE replace(_, _, _)
replace(s, old, new) ==
  LET i == find(s, old, 1)
  IN  IF i = 0 THEN s
      ELSE SubSeq(s, 1, i - 1) \o new
             \o replace(SubSeq(s, i + Len(old), Len(s)), old, new)

\* re.sub(r'\s+', ' ', s)
RECURSIVE sub_whitespace(_)
sub_whitespace(s) ==
  IF s = <<>> THEN <<>>
  ELSE IF s[1] \in whitespace
    THEN <<" ">> \o sub_whitespace(SubSeq(s, WhitespaceRun(s, 1) + 1, Len(s)))
  ELSE <<s[1]>> \o sub_whitespace(Tail(s))

\* re.sub(r'[<>:"/\\|?*]', '', s)
invalid_filename_characters == {"<", ">", ":", "\"", "/", "\\", "|", "?", "*"}
sub_invalid(s) == SelectSeq(s, LAMBDA c : c \notin invalid_filename_characters)

(***************************************************************************)
(* The literals of the markers and of the patterns.                        *)
(***************************************************************************)
ELECTRICITY_ACT_1989 ==
  <<"E", "L", "E", "C", "T", "R", "I", "C", "I", "T", "Y", " ", "A", "C",
    "T", " ", "1", "9", "8", "9">>
RE_ELECTRICAL_EQUIPMENT ==
  <<"R", "e", ":", " ", "E", "l", "e", "c", "t", "r", "i", "c", "a", "l",
    " ", "E", "q", "u", "i", "p", "m", "e", "n", "t">>
THIS_AGREEMENT ==
  <<"T", "h", "i", "s", " ", "A", "g", "r", "e", "e", "m", "e", "n", "t">>
AGREED_TERMS == <<"A", "G", "R", "E", "E", "D", " ", "T", "E", "R", "M", "S">>
I_WE == <<"I", "/", "W", "e", ",">>
OF == <<"o", "f">>
BEING == <<"b", "e", "i", "n", "g">>
PARTY_1 == <<"(", "1", ")">>
DOT_PDF == <<".", "p", "d", "f">>

\* the result of re.search: whether the pattern matched and the span of
\* the group, first and last index
Match(start, end) == [found |-> TRUE, start |-> start, end |-> end]
NoMatch == [found |-> FALSE, start |-> 0, end |-> 0]
group(s, match) == SubSeq(s, match.start, match.end)

(***************************************************************************)
(* validate_content: the exception it raises, None when it returns.        *)
(***************************************************************************)
validate_content(text, letter_type) ==
  IF text = <<>> THEN "ValidationError"
  ELSE IF strip(text) = <<>> THEN "ValidationError"
  ELSE IF Len(strip(text)) < 50 THEN "ValidationError"
  ELSE IF /\ letter_type = "annual"
          /\ ~contains(strip(text), ELECTRICITY_ACT_1989)
          /\ ~contains(strip(text), RE_ELECTRICAL_EQUIPMENT)
    THEN "ValidationError"
  ELSE IF /\ letter_type = "15-year"
          /\ ~contains(strip(text), THIS_AGREEMENT)
          /\ ~contains(strip(text), AGREED_TERMS)
    THEN "ValidationError"
  ELSE None

(***************************************************************************)
(* clean_address_line and get_first_names.                                 *)
(***************************************************************************)
\* the words before the first word with a parenthesis
RECURSIVE before_parenthesis(_)
before_parenthesis(parts) ==
  IF parts = <<>> \/ "(" \in Range(parts[1]) THEN <<>>
  ELSE <<parts[1]>> \o before_parenthesis(Tail(parts))

clean_address_line(line) ==
  LET spaced == sub_whitespace(line)
      cleaned == replace(replace(spaced, <<" ", "a", "n", "d", " ">>, <<" ">>),
                         <<" ", "A", "N", "D", " ">>, <<" ">>)
      parts == split_words(cleaned)
      cleaned_parts == before_parenthesis(parts)
  IN  IF line = <<>> \/ isspace(line) THEN <<>>
      ELSE IF "(" \in Range(cleaned) /\ parts # <<>>
        THEN IF cleaned_parts # <<>> THEN join(cleaned_parts, <<" ">>)
             ELSE parts[1]
      ELSE strip(cleaned)

get_first_names(full_names) ==
  LET normalized ==
        replace(replace(replace(full_names, <<" ", "A", "N", "D", " ">>, <<",">>),
                        <<"A", "N", "D", " ">>, <<",">>),
                <<" ", "&", " ">>, <<",">>)
      pieces == split(normalized, ",")
      names == SelectSeq([i \in 1..Len(pieces) |-> strip(pieces[i])],
                         LAMBDA name : name # <<>>)
      first_names ==
        [i \in 1..Len(names) |-> capitalize(split_words(names[i])[1])]
      n == Len(first_names)
      and == <<" ", "a", "n", "d", " ">>
  IN  IF full_names = <<>> THEN <<>>
      ELSE IF n = 2 THEN first_names[1] \o and \o first_names[2]
      ELSE IF n > 2
        THEN join(SubSeq(first_names, 1, n - 1), <<",", " ">>)
               \o and \o first_names[n]
      ELSE IF n = 1 THEN first_names[1]
      ELSE <<>>

(***************************************************************************)
(* The postcode pattern [A-Z]{1,2}\d[A-Z\d]?\s*\d[A-Z]{2}.                 *)
(***************************************************************************)
\* what [A-Z] matches: with re.IGNORECASE the letters of both cases and
\* their case variants, without it the capitals
letters_ignorecase ==
  Range(ascii_uppercase) \cup Range(ascii_lowercase) \cup {KelvinSign}
letters_uppercase == Range(ascii_uppercase)

\* the last index of the match at index i that takes n leading letters and
\* m optional characters, 0 without such a match; \s* takes the whole run
\* of whitespace, since a digit has to follow it
postcode_end(s, i, letters, n, m) ==
  LET d == i + n
      a == d + 1 + m
      b == a + WhitespaceRun(s, a)
  IN  IF /\ b + 2 <= Len(s)
         /\ \A j \in i..(d - 1) : s[j] \in letters
         /\ s[d] \in digits
         /\ (m = 1 => s[d + 1] \in letters \cup digits)
         /\ s[b] \in digits
         /\ s[b + 1] \in letters
         /\ s[b + 2] \in letters
        THEN b + 2
        ELSE 0

\* the choices of the quantifiers {1,2} and ?, in the order a greedy
\* match tries them
postcode_choices ==
  <<[n |-> 2, m |-> 1], [n |-> 2, m |-> 0], [n |-> 1, m |-> 1], [n |-> 1, m |-> 0]>>

postcode_ends(s, i, letters) ==
  [k \in 1..Len(postcode_choices) |->
     postcode_end(s, i, letters, postcode_choices[k].n, postcode_choices[k].m)]

first_postcode_end(ends) ==
  LET matching == {k \in 1..Len(ends) : ends[k] > 0}
  IN  IF matching = {} THEN 0 ELSE ends[MinOf(matching)]

postcode_match_at(s, i, letters) == first_postcode_end(postcode_ends(s, i, letters))

\* re.search(postcode_pattern, s, flags=re.IGNORECASE) from index start
first_postcode_match(s, starts) ==
  IF starts = {} THEN NoMatch
  ELSE Match(MinOf(starts),
             postcode_match_at(s, MinOf(starts), letters_ignorecase))

search_postcode(s, start) ==
  first_postcode_match(s,
    {i \in start..Len(s) : postcode_match_at(s, i, letters_ignorecase) > 0})

\* re.findall(postcode_pattern, s, flags=re.IGNORECASE)
RECURSIVE findall_postcodes(_, _)
findall_postcodes(s, start) ==
  LET match == search_postcode(s, start)
  IN  IF ~match.found THEN <<>>
      ELSE <<group(s, match)>> \o findall_postcodes(s, match.end + 1)

\* formatter.validate_postcode: the anchored pattern on the trimmed,
\* upper-cased postcode
validate_postcode(postcode) ==
  LET trimmed == upper(strip(postcode))
  IN  \E k \in 1..Len(postcode_choices) :
        /\ postcode_ends(trimmed, 1, letters_uppercase)[k] > 0
        /\ postcode_ends(trimmed, 1, letters_uppercase)[k] = Len(trimmed)

\* "except ContentError: raise" and "except Exception as e: raise
\* ContentError(...)" around the body of an extractor
except_handlers(result) ==
  IF result.raised \notin {None, "ContentError"}
    THEN Raised("ContentError")
    ELSE result

\* the first six of the address lines, address_1 to address_6
address_dict_lines(parts) ==
  SubSeq(parts, 1, IF Len(parts) < 6 THEN Len(parts) ELSE 6)

\* the cleaned, non-blank parts of the text between commas
cleaned_parts(text) ==
  LET pieces == split(text, ",")
  IN  [i \in 1..Len(pieces) |-> clean_address_line(pieces[i])]

non_blank(parts) == SelectSeq(parts, LAMBDA p : p # <<>> /\ ~isspace(p))

\* text[:start].strip(), without one comma at its end
before_postcode(text, start) ==
  LET address_parts == strip(SubSeq(text, 1, start - 1))
  IN  IF endswith(address_parts, <<",">>)
        THEN SubSeq(address_parts, 1, Len(address_parts) - 1)
        ELSE address_parts

\* an extractor from its search of the postcode on, lines 112 to 149 of the
\* annual one and lines 182 to 218 of the 15-year one: the two differ in
\* the parts that come before those of the address, none and
\* initial_address
result_at_postcode(names, initial_parts, address, postcode_match) ==
  IF ~postcode_match.found THEN Raised("ContentError")
  ELSE Returned(names, get_first_names(names),
         Address(address_dict_lines(non_blank(
                   initial_parts \o
                     cleaned_parts(before_postcode(address, postcode_match.start)))),
                 upper(group(address, postcode_match))))

(***************************************************************************)
(* re.search(r'I/We,\s+([^\n]+)', content): \s+ takes the longest run of   *)
(* whitespace after which a character other than a newline is left, and    *)
(* the group runs to the end of that line.                                 *)
(***************************************************************************)
name_match_at(s, i) ==
  LET a == i + Len(I_WE)
      taken == {k \in 1..WhitespaceRun(s, a) :
                  a + k <= Len(s) /\ s[a + k] # "\n"}
      start == a + MaxOf(taken)
      newline == find(s, <<"\n">>, start)
  IN  IF ~MatchesAt(s, i, I_WE) \/ taken = {} THEN NoMatch
      ELSE Match(start, IF newline = 0 THEN Len(s) ELSE newline - 1)

search_names(s) ==
  LET starts == {i \in 1..Len(s) : name_match_at(s, i).found}
  IN  IF starts = {} THEN NoMatch ELSE name_match_at(s, MinOf(starts))

(***************************************************************************)
(* re.search(r'of\s+(.*?)(?=being|$)', content, re.DOTALL): the group      *)
(* starts after the whitespace that follows the first "of" and stops       *)
(* before the first "being", or at the end of the text, where $ also       *)
(* matches in front of a last newline.                                     *)
(***************************************************************************)
address_match_at(s, i) ==
  LET start == i + Len(OF) + WhitespaceRun(s, i + Len(OF))
      stops == {e \in start..(Len(s) + 1) :
                  \/ MatchesAt(s, e, BEING)
                  \/ e = Len(s) + 1
                  \/ e = Len(s) /\ s[e] = "\n"}
  IN  IF ~MatchesAt(s, i, OF) \/ WhitespaceRun(s, i + Len(OF)) = 0
        THEN NoMatch
        ELSE Match(start, MinOf(stops) - 1)

search_address(s) ==
  LET starts == {i \in 1..Len(s) : address_match_at(s, i).found}
  IN  IF starts = {} THEN NoMatch ELSE address_match_at(s, MinOf(starts))

(***************************************************************************)
(* document_processor.extract_names_and_address_annual.                    *)
(***************************************************************************)
\* annual_body without the test of name_match: the names are left empty
annual_body_without_name_test(text) ==
  LET name_match == search_names(text)
      address_match == search_address(text)
      address == strip(group(text, address_match))
  IN  IF validate_content(text, "annual") # None
        THEN Raised(validate_content(text, "annual"))
      ELSE IF ~address_match.found THEN Raised("ContentError")
      ELSE result_at_postcode(
             IF name_match.found THEN strip(group(text, name_match)) ELSE <<>>,
             <<>>, address, search_postcode(address, 1))

annual_body(text) ==
  LET name_match == search_names(text)
      address_match == search_address(text)
      address == strip(group(text, address_match))
  IN  IF validate_content(text, "annual") # None
        THEN Raised(validate_content(text, "annual"))
      ELSE IF ~name_match.found THEN Raised("ContentError")
      ELSE IF ~address_match.found THEN Raised("ContentError")
      ELSE result_at_postcode(strip(group(text, name_match)), <<>>, address,
                              search_postcode(address, 1))

extract_names_and_address_annual(text) == except_handlers(annual_body(text))

(***************************************************************************)
(* re.search(r'\(1\)\s*(.*?)\s+of\s*(.*?)\s*(?=,\s*|\))', content,         *)
(* re.DOTALL).  Group 1 grows until whitespace and "of" follow it, group 2 *)
(* until, after whitespace, a comma or a closing parenthesis follows it.   *)
(***************************************************************************)
FifteenYearMatch(names, initial_address, end) ==
  [found |-> TRUE, names |-> names, initial_address |-> initial_address,
   end |-> end]
NoFifteenYearMatch ==
  [found |-> FALSE, names |-> <<>>, initial_address |-> <<>>, end |-> 0]

\* whitespace and "of" start at index p
of_follows(s, p) ==
  /\ WhitespaceRun(s, p) >= 1
  /\ MatchesAt(s, p + WhitespaceRun(s, p), OF)

\* after the whitespace at index q comes a comma or a closing parenthesis
lookahead_follows(s, q) ==
  /\ q + WhitespaceRun(s, q) <= Len(s)
  /\ s[q + WhitespaceRun(s, q)] \in {",", ")"}

\* where group 2 starts when group 1 ends before index p
group_2_start(s, p) ==
  LET o == p + WhitespaceRun(s, p) + Len(OF)
  IN  o + WhitespaceRun(s, o)

\* the ends of group 1, from index first on, after which the rest of the
\* pattern matches
group_1_ends(s, first) ==
  {p \in first..Len(s) :
     /\ of_follows(s, p)
     /\ \E q \in group_2_start(s, p)..Len(s) : lookahead_follows(s, q)}

\* the match that starts at index i.  \s* after "(1)" first takes the whole
\* run of whitespace; it gives whitespace back only for an "of" that
\* follows that run at once, and then group 1 is empty
fifteen_year_match_at(s, i) ==
  LET a == i + Len(PARTY_1)
      run == WhitespaceRun(s, a)
      greedy == group_1_ends(s, a + run)
      given_back == IF run >= 1 THEN group_1_ends(s, a + run - 1) ELSE {}
      first == IF greedy # {} THEN a + run ELSE a + run - 1
      p == IF greedy # {} THEN MinOf(greedy) ELSE MinOf(given_back)
      start == group_2_start(s, p)
      q == MinOf({x \in start..Len(s) : lookahead_follows(s, x)})
  IN  IF ~MatchesAt(s, i, PARTY_1) \/ greedy \cup given_back = {}
        THEN NoFifteenYearMatch
        ELSE FifteenYearMatch(SubSeq(s, first, p - 1), SubSeq(s, start, q - 1),
                              q + WhitespaceRun(s, q))

first_fifteen_year_match(s, starts) ==
  IF starts = {} THEN NoFifteenYearMatch
  ELSE fifteen_year_match_at(s, MinOf(starts))

search_fifteen_year(s) ==
  first_fifteen_year_match(s,
    {i \in 1..Len(s) : fifteen_year_match_at(s, i).found})

(***************************************************************************)
(* document_processor.extract_names_and_address_fifteen_year.              *)
(***************************************************************************)
fifteen_year_result(text, match) ==
  LET address_text == strip(SubSeq(text, match.end, Len(text)))
  IN  IF ~match.found THEN Raised("ContentError")
      ELSE result_at_postcode(
             strip(match.names),
             <<clean_address_line(strip(match.initial_address))>>,
             address_text, search_postcode(address_text, 1))

fifteen_year_body(text) == fifteen_year_result(text, search_fifteen_year(text))

extract_names_and_address_fifteen_year(text) ==
  except_handlers(fifteen_year_body(text))

(***************************************************************************)
(* WayleaveLetterGenerator.extract_names_and_address_annual of the module  *)
(* letter_generator.py, which keeps every postcode it finds.               *)
(***************************************************************************)
WayleaveAddress(house, city, county, postcode, all_postcodes) ==
  [house |-> house, city |-> city, county |-> county, postcode |-> postcode,
   all_postcodes |-> all_postcodes]
WayleaveReturned(full_names, address) ==
  [raised |-> None, full_names |-> full_names, address |-> address]
WayleaveRaised(exception) ==
  [raised |-> exception, full_names |-> <<>>,
   address |-> WayleaveAddress(<<>>, <<>>, <<>>, <<>>, <<>>)]

\* WayleaveLetterGenerator.validate_content raises ContentError
WayleaveLetterGenerator_validate_content(text, letter_type) ==
  IF validate_content(text, letter_type) # None THEN "ContentError" ELSE None

\* the extractor from line 436 on, with the postcodes found
WayleaveLetterGenerator_address(names, address, multiple_postcodes) ==
  LET all_postcodes ==
        [i \in 1..Len(multiple_postcodes) |-> upper(multiple_postcodes[i])]
      first_pc_index == find(upper(address), all_postcodes[1], 1)
      pieces == split(before_postcode(address, first_pc_index), ",")
      parts == [i \in 1..Len(pieces) |-> strip(pieces[i])]
  IN  IF multiple_postcodes = <<>> THEN WayleaveRaised("ContentError")
      ELSE IF first_pc_index = 0 THEN WayleaveRaised("ContentError")
      ELSE IF Len(parts) < 2 THEN WayleaveRaised("ContentError")
      ELSE WayleaveReturned(names,
             WayleaveAddress(parts[1], parts[2],
                             IF Len(parts) > 2 THEN parts[3] ELSE <<>>,
                             join(all_postcodes, <<" ">>), all_postcodes))

WayleaveLetterGenerator_extract_names_and_address_annual(text) ==
  LET name_match == search_names(text)
      address_match == search_address(text)
      address == strip(group(text, address_match))
  IN  IF WayleaveLetterGenerator_validate_content(text, "annual") # None
        THEN WayleaveRaised("ContentError")
      ELSE IF ~name_match.found THEN WayleaveRaised("ContentError")
      ELSE IF ~address_match.found THEN WayleaveRaised("ContentError")
      ELSE WayleaveLetterGenerator_address(strip(group(text, name_match)),
                                           address, findall_postcodes(address, 1))

(***************************************************************************)
(* formatter.generate_filename.                                            *)
(***************************************************************************)
\* sanitize_component without its second substitution
sanitize_component_keeping_invalid(component) ==
  IF component = <<>> THEN <<>>
  ELSE sub_whitespace(strip(component))

sanitize_component(component) ==
  IF component = <<>> THEN <<>>
  ELSE sub_invalid(sub_whitespace(strip(component)))

\* generate_filename without the postcode
generate_filename_without_postcode(address_dict) ==
  LET lines == address_dict_lines(address_dict.address_lines)
      sanitized == [i \in 1..Len(lines) |-> sanitize_component(lines[i])]
      name == join(SelectSeq(sanitized, LAMBDA part : part # <<>>),
                   <<",", " ">>)
  IN  IF endswith(lower(name), DOT_PDF) THEN name ELSE name \o DOT_PDF

generate_filename(address_dict) ==
  LET lines == address_dict_lines(address_dict.address_lines)
      sanitized == [i \in 1..Len(lines) |-> sanitize_component(lines[i])]
      filename_parts ==
        SelectSeq(sanitized, LAMBDA part : part # <<>>)
          \o (IF address_dict.postcode # <<>>
                THEN <<sanitize_component(address_dict.postcode)>>
                ELSE <<>>)
      name == join(SelectSeq(filename_parts, LAMBDA part : part # <<>>),
                   <<",", " ">>)
  IN  IF endswith(lower(name), DOT_PDF) THEN name ELSE name \o DOT_PDF

(***************************************************************************)
(* The texts handed to the extractors: a marker line, the party, the       *)
(* address after "of", the postcodes and the rest of the sentence, each of *)
(* which a text may lack.                                                  *)
(***************************************************************************)
MaxPostcodes == 2

Markers ==
  { <<>>,
    RE_ELECTRICAL_EQUIPMENT \o <<"\n">>,
    ELECTRICITY_ACT_1989 \o <<"\n">>,
    THIS_AGREEMENT \o <<" ", "i", "s", " ", "m", "a", "d", "e", "\n">> }

JOHN_SMITH_AND_JANE_DOE ==
  <<"J", "O", "H", "N", " ", "S", "M", "I", "T", "H", " ", "A", "N", "D",
    " ", "J", "A", "N", "E", " ", "D", "O", "E">>

ROLAND_SMITH_AND_JANE_DOE ==
  <<"R", "O", "L", "A", "N", "D", " ", "S", "M", "I", "T", "H", " ", "A", "N",
    "D", " ", "J", "A", "N", "E", " ", "D", "O", "E">>

Parties ==
  { <<>>,
    I_WE \o <<" ">> \o ROLAND_SMITH_AND_JANE_DOE \o <<"\n">>,
    I_WE \o <<" ">> \o JOHN_SMITH_AND_JANE_DOE \o <<" ">>,
    I_WE \o <<" ">> \o JOHN_SMITH_AND_JANE_DOE \o <<"\n">>,
    PARTY_1 \o <<" ">> \o JOHN_SMITH_AND_JANE_DOE \o <<" ">> }

AMBLESIDE_ROAD ==
  <<"5", "2", " ", "A", "m", "b", "l", "e", "s", "i", "d", "e", " ", "R",
    "o", "a", "d", ",", " ", "L", "i", "g", "h", "t", "w", "a", "t", "e",
    "r", ",", " ", "S", "u", "r", "r", "e", "y", " ">>
HIGH_STREET ==
  <<"1", " ", "H", "i", "g", "h", " ", "S", "t", "r", "e", "e", "t", ",",
    "\n", "O", "l", "d", " ", "T", "o", "w", "n", " ", "(", "N", "o", "r",
    "t", "h", ")", ",", " ">>

Addresses ==
  { <<>>,
    OF \o <<" ">> \o AMBLESIDE_ROAD,
    OF \o <<" ">> \o HIGH_STREET }

GU18_5UH == <<"G", "U", "1", "8", " ", "5", "U", "H">>
PostcodeTokens ==
  { GU18_5UH,
    <<"m", "e", "5", "8", "u", "d">>,
    <<KelvinSign, "T", "1", " ", "2", "A", "B">> }

\* up to MaxPostcodes postcodes, with " and " between them
RECURSIVE PostcodeSpans(_)
PostcodeSpans(n) ==
  IF n = 0 THEN {<<>>}
  ELSE PostcodeSpans(n - 1) \cup
       {(IF span = <<>> THEN <<>> ELSE span \o <<" ", "a", "n", "d", " ">>)
          \o token :
          span \in PostcodeSpans(n - 1), token \in PostcodeTokens}

BEING_THE_OWNER ==
  <<" ", "b", "e", "i", "n", "g", " ", "t", "h", "e", " ", "o", "w", "n",
    "e", "r", " ", "o", "r", " ", "o", "c", "c", "u", "p", "i", "e", "r">>
THE_GRANTOR ==
  <<" ", "(", "t", "h", "e", " ", "G", "r", "a", "n", "t", "o", "r", ")">>

Rests == {<<>>, <<"\n">>, BEING_THE_OWNER, THE_GRANTOR}

Contents ==
  {marker_line \o party \o address \o postcodes \o rest :
     marker_line \in Markers, party \in Parties, address \in Addresses,
     postcodes \in PostcodeSpans(MaxPostcodes), rest \in Rests}

(***************************************************************************)
(* Extraction: one of the extractors is called on a text, and              *)
(* generate_filename and validate_postcode on what it returned.            *)
(***************************************************************************)
InitExtract ==
  /\ files = [d \in Dirs |-> {}]
  /\ marker = [d \in Dirs |-> FALSE]
  /\ listable = [d \in Dirs |-> TRUE]
  /\ caseInsensitive = FALSE
  /\ ScannerIdle
  /\ content \in Contents
  /\ extractor = None
  /\ outcome = Raised(None)
  /\ filename = <<>>
  /\ validated = FALSE
  /\ postcode_valid = FALSE
  /\ FormatIdle
  /\ LetterIdle
  /\ ClassifyIdle
  /\ ConvertIdle

ExtractAnnual ==
  /\ extractor = None
  /\ extractor' = "annual"
  /\ outcome' = extract_names_and_address_annual(content)
  /\ UNCHANGED <<scanVars, textVars, content, filename, validated, postcode_valid>>

ExtractFifteenYear ==
  /\ extractor = None
  /\ extractor' = "15-year"
  /\ outcome' = extract_names_and_address_fifteen_year(content)
  /\ UNCHANGED <<scanVars, textVars, content, filename, validated, postcode_valid>>

WayleaveLetterGeneratorExtractAnnual ==
  /\ extractor = None
  /\ extractor' = "WayleaveLetterGenerator annual"
  /\ outcome' = WayleaveLetterGenerator_extract_names_and_address_annual(content)
  /\ UNCHANGED <<scanVars, textVars, content, filename, validated, postcode_valid>>

GenerateFilename ==
  /\ extractor \in {"annual", "15-year"}
  /\ outcome.raised = None
  /\ filename = <<>>
  /\ filename' = generate_filename(outcome.address)
  /\ UNCHANGED <<scanVars, textVars, content, extractor, outcome, validated, postcode_valid>>

ValidatePostcode ==
  /\ extractor # None
  /\ outcome.raised = None
  /\ ~validated
  /\ validated' = TRUE
  /\ postcode_valid' = validate_postcode(outcome.address.postcode)
  /\ UNCHANGED <<scanVars, textVars, content, extractor, outcome, filename>>

NextExtract ==
  \/ ExtractAnnual
  \/ ExtractFifteenYear
  \/ WayleaveLetterGeneratorExtractAnnual
  \/ GenerateFilename
  \/ ValidatePostcode

SpecExtract == InitExtract /\ [][NextExtract]_vars

(***************************************************************************)
(* Properties of the extractors.                                           *)
(***************************************************************************)
ANNUAL_MARKERS == {ELECTRICITY_ACT_1989, RE_ELECTRICAL_EQUIPMENT}
FIFTEEN_YEAR_MARKERS == {THIS_AGREEMENT, AGREED_TERMS}

\* the text is empty, shorter than 50 characters once trimmed, or has none
\* of the markers
Invalid(text, markers) ==
  \/ text = <<>>
  \/ Len(strip(text)) < 50
  \/ \A marker_text \in markers : ~contains(text, marker_text)

\* C7: for both dialects, the extraction of a text that is empty, shorter
\* than 50 characters after trimming, or without any marker of the dialect
\* fails with a ValidationError, whatever the rest of the text holds.
C7_InvalidTextRaisesValidationError ==
  /\ (extractor = "annual" /\ Invalid(content, ANNUAL_MARKERS))
       => outcome.raised = "ValidationError"
  /\ (extractor = "15-year" /\ Invalid(content, FIFTEEN_YEAR_MARKERS))
       => outcome.raised = "ValidationError"

\* C8: the annual extractor raises ContentError on a text that holds
\* 'ELECTRICITY ACT 1989' and no 'I/We,', the 15-year extractor raises
\* ContentError on a text without '(1)', and neither returns any part of
\* a result.
C8_MalformedTextRaisesContentError ==
  /\ (/\ extractor = "annual"
      /\ contains(content, ELECTRICITY_ACT_1989)
      /\ ~contains(content, I_WE))
       => outcome = Raised("ContentError")
  /\ (extractor = "15-year" /\ ~contains(content, PARTY_1))
       => outcome = Raised("ContentError")

\* an annual text that passes validate_content, has an address and a
\* postcode and no 'I/We,' was refused
C8_Witness ==
  /\ extractor = "annual"
  /\ contains(content, ELECTRICITY_ACT_1989)
  /\ ~contains(content, I_WE)
  /\ ~Invalid(content, ANNUAL_MARKERS)
  /\ contains(content, AMBLESIDE_ROAD \o GU18_5UH)
  /\ outcome = Raised("ContentError")

\* C9: the postcode of every record an extractor returns, from a text with
\* one postcode or with several, passes validate_postcode.
C9_PostcodeRoundTrip == validated => postcode_valid

\* the scenario on one line, and with a line break after the names
SCENARIO_ADDRESS ==
  OF \o <<" ">> \o AMBLESIDE_ROAD \o GU18_5UH \o BEING_THE_OWNER
ScenarioOnOneLine ==
  RE_ELECTRICAL_EQUIPMENT \o <<"\n">> \o I_WE \o <<" ">>
    \o JOHN_SMITH_AND_JANE_DOE \o <<" ">> \o SCENARIO_ADDRESS
ScenarioWithLineBreak ==
  RE_ELECTRICAL_EQUIPMENT \o <<"\n">> \o I_WE \o <<" ">>
    \o JOHN_SMITH_AND_JANE_DOE \o <<"\n">> \o SCENARIO_ADDRESS

\* the address of the scenario and its file name
ScenarioAddress ==
  Address(<<SubSeq(AMBLESIDE_ROAD, 1, 17), SubSeq(AMBLESIDE_ROAD, 20, 29),
            SubSeq(AMBLESIDE_ROAD, 32, 37)>>, GU18_5UH)
ScenarioFilename ==
  SubSeq(AMBLESIDE_ROAD, 1, 37) \o <<",", " ">> \o GU18_5UH \o DOT_PDF

\* C10 as stated: the annual extraction of 'Re: Electrical Equipment' and
\* 'I/We, JOHN SMITH AND JANE DOE of 52 Ambleside Road, Lightwater, Surrey
\* GU18 5UH being ...' returns the names 'JOHN SMITH AND JANE DOE', the
\* lines '52 Ambleside Road', 'Lightwater', 'Surrey' and the postcode
\* 'GU18 5UH', and generate_filename of that address returns
\* '52 Ambleside Road, Lightwater, Surrey, GU18 5UH.pdf'.
C10_ScenarioAsStated ==
  (extractor = "annual" /\ content = ScenarioOnOneLine) =>
    /\ outcome.raised = None
    /\ outcome.full_names = JOHN_SMITH_AND_JANE_DOE
    /\ outcome.address = ScenarioAddress
    /\ filename # <<>> => filename = ScenarioFilename

\* C10: with a line break between the names and 'of', the annual extraction
\* returns the names 'JOHN SMITH AND JANE DOE'; on one line the names are
\* the whole rest of the line after 'I/We,'.  Either way the lines are
\* '52 Ambleside Road', 'Lightwater', 'Surrey', the postcode is 'GU18 5UH'
\* and generate_filename returns
\* '52 Ambleside Road, Lightwater, Surrey, GU18 5UH.pdf'.
C10_ScenarioNamesToEndOfLine ==
  /\ (extractor = "annual" /\ content = ScenarioWithLineBreak) =>
       /\ outcome.raised = None
       /\ outcome.full_names = JOHN_SMITH_AND_JANE_DOE
       /\ outcome.address = ScenarioAddress
       /\ filename # <<>> => filename = ScenarioFilename
  /\ (extractor = "annual" /\ content = ScenarioOnOneLine) =>
       /\ outcome.raised = None
       /\ outcome.full_names =
            JOHN_SMITH_AND_JANE_DOE \o <<" ">> \o SCENARIO_ADDRESS
       /\ outcome.address = ScenarioAddress
       /\ filename # <<>> => filename = ScenarioFilename

\* the file name of the scenario with the line break was generated
C10_Witness ==
  /\ extractor = "annual"
  /\ content = ScenarioWithLineBreak
  /\ outcome.full_names = JOHN_SMITH_AND_JANE_DOE
  /\ filename = ScenarioFilename

(***************************************************************************)
(* The address records handed to the formatter: the lines of address_1 to  *)
(* address_6, a line the record lacks or holds empty being <<>>, and the   *)
(* postcode.                                                               *)
(***************************************************************************)

AMBLESIDE_ROAD_LINES ==
  <<<<"5", "2", " ", "A", "m", "b", "l", "e", "s", "i", "d", "e", " ", "R",
      "o", "a", "d">>,
    <<"L", "i", "g", "h", "t", "w", "a", "t", "e", "r">>,
    <<"S", "u", "r", "r", "e", "y">>>>

\* runs of whitespace, characters no filename may hold and an empty line
HIGH_STREET_LINES ==
  <<<<" ", "1", " ", " ", "H", "i", "g", "h", " ", ":", " ", "S", "t", "r",
      "e", "e", "t", " ">>,
    <<>>,
    <<"O", "l", "d", " ", "T", "o", "w", "n", "?">>>>

\* a line of which the sanitizer leaves nothing, and a line with commas
THE_MEWS_LINES ==
  <<<<"*">>,
    <<"F", "l", "a", "t", " ", "2", ",", " ", "T", "h", "e", " ", "M", "e",
      "w", "s", ",", ",", " ", "M", "i", "l", "l", " ", "L", "a", "n", "e">>>>

\* a line that ends like a filename
PLAN_PDF_LINES ==
  <<<<"P", "l", "a", "n", ".", "P", "D", "F">>>>

AddressLines ==
  {<<>>, AMBLESIDE_ROAD_LINES, HIGH_STREET_LINES, THE_MEWS_LINES, PLAN_PDF_LINES}

GU18__5UH == <<"G", "U", "1", "8", " ", " ", "5", "U", "H">>

GU185UH == <<"G", "U", "1", "8", "5", "U", "H">>

ME5_8UD == <<"M", "E", "5", " ", "8", "U", "D">>

Postcodes == {<<>>, GU18_5UH, GU18__5UH, GU185UH, ME5_8UD}

(***************************************************************************)
(* formatter.format_names.                                                 *)
(***************************************************************************)
FormattedNames(header_names, salutation_names) ==
  [raised |-> None, header_names |-> header_names,
   salutation_names |-> salutation_names]
FormattingError ==
  [raised |-> "FormattingError", header_names |-> <<>>, salutation_names |-> <<>>]

\* title_case: re.split(r'([-\s])', name.lower()) cuts at every hyphen and
\* whitespace character, and capitalize acts on what lies between them
title_case(name) ==
  [i \in 1..Len(name) |->
     IF i = 1 \/ name[i - 1] \in whitespace \cup {"-"}
       THEN upper_char(lower_char(name[i]))
       ELSE lower_char(name[i])]

\* re.split(' AND | & ', full_names): cut at the leftmost of the two
\* separators, then go on after it
RECURSIVE split_names(_)
split_names_at(s, and_at, ampersand_at) ==
  IF and_at = 0 /\ ampersand_at = 0 THEN <<s>>
  ELSE IF ampersand_at = 0 \/ (and_at # 0 /\ and_at < ampersand_at)
    THEN <<SubSeq(s, 1, and_at - 1)>> \o split_names(SubSeq(s, and_at + 5, Len(s)))
  ELSE <<SubSeq(s, 1, ampersand_at - 1)>>
         \o split_names(SubSeq(s, ampersand_at + 3, Len(s)))
split_names(s) ==
  split_names_at(s, find(s, <<" ", "A", "N", "D", " ">>, 1),
                 find(s, <<" ", "&", " ">>, 1))

\* names_list: the pieces that are not empty once trimmed, in title case
names_list_of(pieces) ==
  LET stripped == [i \in 1..Len(pieces) |-> title_case(strip(pieces[i]))]
  IN  SelectSeq(stripped, LAMBDA name : name # <<>>)

\* the salutation of lines 52 to 57, with a comma before the final "and"
salutation_with_comma_before_and(first_names) ==
  IF Len(first_names) = 2
    THEN first_names[1] \o <<" ", "a", "n", "d", " ">> \o first_names[2]
  ELSE IF Len(first_names) > 2
    THEN join(SubSeq(first_names, 1, Len(first_names) - 1), <<",", " ">>)
           \o <<",", " ", "a", "n", "d", " ">> \o first_names[Len(first_names)]
  ELSE first_names[1]

\* lines 52 to 57: the first names joined
salutation_of(first_names) ==
  IF Len(first_names) = 2
    THEN first_names[1] \o <<" ", "a", "n", "d", " ">> \o first_names[2]
  ELSE IF Len(first_names) > 2
    THEN join(SubSeq(first_names, 1, Len(first_names) - 1), <<",", " ">>)
           \o <<" ", "a", "n", "d", " ">> \o first_names[Len(first_names)]
  ELSE first_names[1]

\* lines 38 to 59: the header and the salutation of a names_list that is
\* not empty; the override, when there is one, is a sequence of one string
names_result(names_list, override_salutation_name) ==
  FormattedNames(
    join(names_list, <<" ", "&", " ">>),
    IF override_salutation_name # <<>> THEN override_salutation_name[1]
    ELSE salutation_of([i \in 1..Len(names_list) |-> split_words(names_list[i])[1]]))

format_names_of(names_list, override_salutation_name) ==
  IF names_list = <<>> THEN FormattingError
  ELSE names_result(names_list, override_salutation_name)

format_names(full_names, override_salutation_name) ==
  IF full_names = <<>> THEN FormattingError
  ELSE format_names_of(names_list_of(split_names(full_names)),
                       override_salutation_name)


(***************************************************************************)
(* The names handed to format_names and to get_first_names, and the        *)
(* overrides of the salutation: none, the empty string and a greeting.     *)
(***************************************************************************)

A_AND_B_AND_C ==
  <<"A", " ", "A", "N", "D", " ", "B", " ", "A", "N", "D", " ", "C">>

JOHN_SMITH == <<"J", "O", "H", "N", " ", "S", "M", "I", "T", "H">>

MARY_ANNE_LEE ==
  <<"M", "a", "r", "y", "-", "a", "n", "n", "e", " ", "L", "E", "E", " ",
    "&", " ", "B", "O", "B", " ", "S", "T", "O", "N", "E", " ", "A", "N",
    "D", " ", "S", "U", "E", " ", "R", "A", "Y", " ", " ", "&", " ", " ",
    "A", "L", " ", "R", "O", "E">>

lowercase_and ==
  <<"j", "o", "h", "n", " ", "s", "m", "i", "t", "h", " ", "a", "n", "d",
    " ", "j", "a", "n", "e", " ", "d", "o", "e">>

AMPERSAND_ONLY == <<" ", "&", " ">>

Names ==
  {<<>>, JOHN_SMITH, JOHN_SMITH_AND_JANE_DOE, A_AND_B_AND_C, MARY_ANNE_LEE,
   lowercase_and, AMPERSAND_ONLY}

MR_AND_MRS_SMITH ==
  <<" ", "M", "r", " ", "a", "n", "d", " ", "M", "r", "s", " ", "S", "M",
    "I", "T", "H">>

Overrides == {<<>>, << <<>> >>, <<MR_AND_MRS_SMITH>>}

(***************************************************************************)
(* formatter.format_address, and the record BatchEditDetailsDialog makes   *)
(* of its table: it holds house, city, county, postcode and address_line_1 *)
(* to address_line_3, and none of address_1 to address_6.                  *)
(***************************************************************************)
LegacyAddress(house, city, county, postcode) ==
  [address_lines |-> <<>>, postcode |-> postcode,
   house |-> house, city |-> city, county |-> county]

\* save_values: the house is the house number, the street and the further
\* lines that are not empty, joined by ", "
save_values(house_number, street, lines, city, county, postcode) ==
  LegacyAddress(
    join(SelectSeq(<<strip(house_number), strip(street)>>
                     \o [i \in 1..Len(lines) |-> strip(lines[i])],
                   LAMBDA part : part # <<>>),
         <<",", " ">>),
    strip(city), strip(county), upper(strip(postcode)))

\* lines 89 to 91: the parts of a line after its first comma, each added
\* while address_parts holds fewer than six
RECURSIVE add_parts(_, _)
add_parts(address_parts, line_parts) ==
  IF line_parts = <<>> THEN address_parts
  ELSE add_parts(IF Len(address_parts) < 6
                   THEN Append(address_parts, strip(line_parts[1]))
                   ELSE address_parts,
                 Tail(line_parts))

\* lines 80 to 91, from the first of the lines on
RECURSIVE add_lines(_, _)
add_line(address_parts, line_parts) ==
  add_parts(Append(address_parts, strip(line_parts[1])), Tail(line_parts))
add_lines(address_parts, lines) ==
  IF lines = <<>> THEN address_parts
  ELSE add_lines(IF lines[1] = <<>> THEN address_parts
                 ELSE add_line(address_parts, split(lines[1], ",")),
                 Tail(lines))

format_address(address_dict) ==
  join(SelectSeq(add_lines(<<>>, address_dict_lines(address_dict.address_lines))
                   \o <<strip(address_dict.postcode)>>,
                 LAMBDA part : part # <<>>),
       <<"\n">>)

LIGHTWATER == <<"L", "i", "g", "h", "t", "w", "a", "t", "e", "r">>
SURREY == <<"S", "u", "r", "r", "e", "y">>
AMBLESIDE_ROAD_STREET ==
  <<"A", "m", "b", "l", "e", "s", "i", "d", "e", " ", "R", "o", "a", "d",
    " ">>

\* what the dialog makes of a row whose cells hold 52, Ambleside Road,
\* Lightwater, Surrey and a postcode
EditedAddresses ==
  {save_values(<<"5", "2">>, AMBLESIDE_ROAD_STREET, <<<<>>, <<>>, <<>>>>,
               LIGHTWATER, SURREY, postcode) :
     postcode \in {GU18_5UH, <<"m", "e", "5", " ", "8", "u", "d">>}}

AddressRecords ==
  {Address(address_lines, postcode) :
     address_lines \in AddressLines, postcode \in Postcodes}
    \cup EditedAddresses

(***************************************************************************)
(* The formatter: generate_filename, format_address and format_names are   *)
(* called on a record and on names.                                        *)
(***************************************************************************)
InitFormat ==
  /\ files = [d \in Dirs |-> {}]
  /\ marker = [d \in Dirs |-> FALSE]
  /\ listable = [d \in Dirs |-> TRUE]
  /\ caseInsensitive = FALSE
  /\ ScannerIdle
  /\ ExtractIdle
  /\ \/ /\ address_to_use \in AddressRecords
        /\ other_postcode \in Postcodes
        /\ names_to_use = JOHN_SMITH_AND_JANE_DOE
        /\ override_salutation = <<>>
     \/ /\ address_to_use = Address(AMBLESIDE_ROAD_LINES, GU18_5UH)
        /\ other_postcode = ME5_8UD
        /\ names_to_use \in Names
        /\ override_salutation \in Overrides
  /\ filenames = <<>>
  /\ formatted_address = <<>>
  /\ formatted_names = <<>>
  /\ salutation_found = <<>>
  /\ LetterIdle
  /\ ClassifyIdle
  /\ ConvertIdle

\* generate_filename on the record, on the same record again, and on the
\* record with the other postcode
GenerateFilenames ==
  /\ filenames = <<>>
  /\ filenames' =
       <<generate_filename(address_to_use),
         generate_filename(address_to_use),
         generate_filename(Address(address_to_use.address_lines, other_postcode))>>
  /\ UNCHANGED <<scanVars, extractVars, letterVars, classifyVars, convertVars, address_to_use, other_postcode,
                 formatted_address, names_to_use, override_salutation,
                 formatted_names, salutation_found>>

FormatAddress ==
  /\ formatted_address = <<>>
  /\ formatted_address' = <<format_address(address_to_use)>>
  /\ UNCHANGED <<scanVars, extractVars, letterVars, classifyVars, convertVars, address_to_use, other_postcode, filenames,
                 names_to_use, override_salutation, formatted_names,
                 salutation_found>>

FormatNames ==
  /\ formatted_names = <<>>
  /\ formatted_names' = <<format_names(names_to_use, override_salutation)>>
  /\ UNCHANGED <<scanVars, extractVars, letterVars, classifyVars, convertVars, address_to_use, other_postcode, filenames,
                 formatted_address, names_to_use, override_salutation,
                 salutation_found>>

GetFirstNames ==
  /\ salutation_found = <<>>
  /\ salutation_found' = <<get_first_names(names_to_use)>>
  /\ UNCHANGED <<scanVars, extractVars, letterVars, classifyVars, convertVars, address_to_use, other_postcode, filenames,
                 formatted_address, names_to_use, override_salutation,
                 formatted_names>>

NextFormat ==
  \/ GenerateFilenames
  \/ FormatAddress
  \/ FormatNames
  \/ GetFirstNames

SpecFormat == InitFormat /\ [][NextFormat]_vars

(***************************************************************************)
(* Properties of generate_filename.                                        *)
(***************************************************************************)
\* the postcode as it is once trimmed and with each run of whitespace
\* made one space
Spaced(postcode) == sub_whitespace(strip(postcode))

\* the two records hold postcodes of the postcode shape that differ by more
\* than their whitespace
PostcodesDiffer ==
  /\ validate_postcode(address_to_use.postcode)
  /\ validate_postcode(other_postcode)
  /\ Spaced(address_to_use.postcode) # Spaced(other_postcode)

\* C11 as stated: generate_filename of the same record twice gives the same
\* string, and of two records that differ in the postcode only two
\* different strings.
C11_FilenameDistinctPerPostcode ==
  filenames # <<>> =>
    /\ filenames[1] = filenames[2]
    /\ other_postcode # address_to_use.postcode => filenames[3] # filenames[1]

\* C11: generate_filename of the same record twice gives the same string,
\* and of two records that differ in the postcode only two different strings
\* when both postcodes are of the postcode shape and still differ once
\* trimmed and with each run of whitespace made one space.
C11_FilenameDistinctPerSpacedPostcode ==
  filenames # <<>> =>
    /\ filenames[1] = filenames[2]
    /\ PostcodesDiffer => filenames[3] # filenames[1]

C11_Witness ==
  /\ filenames # <<>>
  /\ PostcodesDiffer
  /\ address_to_use.address_lines # <<>>
  /\ filenames[3] # filenames[1]

\* what is left of a component: trimmed, each run of whitespace made one
\* space, then the characters < > : " / \ | ? * taken out
Sanitized(component) == sub_invalid(sub_whitespace(strip(component)))

\* the components of a record that are not empty once sanitized, the lines
\* in their order and the postcode last
Components(record) ==
  LET lines == SubSeq(record.address_lines, 1, MinOf({6, Len(record.address_lines)}))
      all == [i \in 1..Len(lines) + 1 |->
                IF i <= Len(lines) THEN Sanitized(lines[i])
                ELSE Sanitized(record.postcode)]
  IN  SelectSeq(all, LAMBDA component : component # <<>>)

NoInvalidCharacter(name) ==
  \A i \in 1..Len(name) : name[i] \notin {"<", ">", ":", "\"", "/", "\\", "|", "?", "*"}

WithSuffixOnce(name) ==
  IF endswith(lower(name), DOT_PDF) THEN name ELSE name \o DOT_PDF

People(names) ==
  LET pieces == split_names(names)
      trimmed == [i \in 1..Len(pieces) |-> strip(pieces[i])]
  IN  SelectSeq(trimmed, LAMBDA person : person # <<>>)

\* the first word of each person, its first letter and the letter after
\* each hyphen a capital, as format_names writes it, or its first letter
\* only, as get_first_names writes it
FirstNamesTitled(persons) ==
  [i \in 1..Len(persons) |-> title_case(split_words(persons[i])[1])]
FirstNamesCapitalized(persons) ==
  [i \in 1..Len(persons) |-> capitalize(split_words(persons[i])[1])]

\* "A and B", "A, B, and C", or the single first name
JoinedWithCommaBeforeAnd(first) ==
  IF Len(first) = 1 THEN first[1]
  ELSE IF Len(first) = 2 THEN first[1] \o <<" ", "a", "n", "d", " ">> \o first[2]
  ELSE join(SubSeq(first, 1, Len(first) - 1), <<",", " ">>)
         \o <<",", " ", "a", "n", "d", " ">> \o first[Len(first)]

\* "A and B", "A, B and C", or the single first name
JoinedWithAnd(first) ==
  IF Len(first) = 1 THEN first[1]
  ELSE join(SubSeq(first, 1, Len(first) - 1), <<",", " ">>)
         \o <<" ", "a", "n", "d", " ">> \o first[Len(first)]

\* format_names returned a salutation it computed
SalutationComputed ==
  /\ formatted_names # <<>>
  /\ override_salutation = <<>>
  /\ formatted_names[1].raised = None

\* get_first_names was called on names that hold a person
SalutationFound ==
  /\ salutation_found # <<>>
  /\ People(names_to_use) # <<>>

Fields(record) ==
  IF "house" \in DOMAIN record
    THEN <<record.house, record.city, record.county>>
    ELSE SubSeq(record.address_lines, 1, MinOf({6, Len(record.address_lines)}))

\* what stands between the commas of the fields, trimmed
RECURSIVE Pieces(_)
Pieces(fields) ==
  IF fields = <<>> THEN <<>>
  ELSE LET pieces == split(fields[1], ",")
       IN  [i \in 1..Len(pieces) |-> strip(pieces[i])] \o Pieces(Tail(fields))

\* the lines of the address: the pieces that are not empty, then the
\* postcode if there is one
AddressBlock(record) ==
  join(SelectSeq(Pieces(Fields(record)) \o <<strip(record.postcode)>>,
                 LAMBDA piece : piece # <<>>),
       <<"\n">>)

NoBlankLine(text) ==
  /\ \A i \in 1..Len(text) - 1 : ~(text[i] = "\n" /\ text[i + 1] = "\n")
  /\ text # <<>> => text[1] # "\n" /\ text[Len(text)] # "\n"

\* C18: format_address gives the fields of the record that are not empty in
\* their order (address_1 to address_6, or house, city and county of a
\* record of the dialog), each on a line of its own, then the postcode alone
\* on the last line, and never a blank line.
C18_AddressFieldsInOrder ==
  formatted_address # <<>> =>
    /\ formatted_address[1] = AddressBlock(address_to_use)
    /\ NoBlankLine(formatted_address[1])

(***************************************************************************)
(* generator.generate_letter and generate_second_letter.  A letter is the  *)
(* template and what format puts in its places: the names and the address  *)
(* below the date, the salutation after "Dear" and the page to sign on;    *)
(* the date is left out.                                                   *)
(***************************************************************************)
MaxPages == 5

Letter(template, recipient, salutation_names, sign_page, letter_filename) ==
  [raised |-> None, template |-> template, recipient |-> recipient,
   salutation_names |-> salutation_names, sign_page |-> sign_page,
   filename |-> letter_filename]
GenerationError ==
  [raised |-> "GenerationError", template |-> None, recipient |-> <<>>,
   salutation_names |-> <<>>, sign_page |-> <<>>, filename |-> <<>>]

\* num2words(number, to="ordinal") of the numbers from 0 to 10
ordinals ==
  <<<<"z", "e", "r", "o", "t", "h">>,
    <<"f", "i", "r", "s", "t">>,
    <<"s", "e", "c", "o", "n", "d">>,
    <<"t", "h", "i", "r", "d">>,
    <<"f", "o", "u", "r", "t", "h">>,
    <<"f", "i", "f", "t", "h">>,
    <<"s", "i", "x", "t", "h">>,
    <<"s", "e", "v", "e", "n", "t", "h">>,
    <<"e", "i", "g", "h", "t", "h">>,
    <<"n", "i", "n", "t", "h">>,
    <<"t", "e", "n", "t", "h">>>>
num2words_ordinal(number) == ordinals[number + 1]

\* line 278 without the subtraction
page_counts_of_any_type(letter_type, page_count) == page_count

\* line 278
page_counts(letter_type, page_count) ==
  IF letter_type = "annual" THEN page_count - 1 ELSE page_count

\* lines 263 to 268 and 327 to 330: the extractor of the letter type
extract_names_and_address(text, letter_type) ==
  IF letter_type = "annual" THEN extract_names_and_address_annual(text)
  ELSE extract_names_and_address_fifteen_year(text)

\* lines 281 and 340 without the override
salutation_names_of_info(override_salutation_name, info) == info.salutation_name

\* lines 281 and 340: the override, a sequence of one string when there is
\* one, or the salutation extracted
salutation_names_to_use(override_salutation_name, info) ==
  IF override_salutation_name # <<>> THEN override_salutation_name[1]
  ELSE info.salutation_name

\* lines 274 to 296 once the names and the address to use are known;
\* num2words raises on a negative number
letter_of(template, names, address, ordinal, salutation_names) ==
  IF names.raised # None \/ ordinal < 0 THEN GenerationError
  ELSE Letter(template,
              names.header_names \o <<"\n">> \o format_address(address),
              salutation_names,
              upper(num2words_ordinal(ordinal)),
              generate_filename(address))

\* lines 270 to 296
letter_of_info(info, letter_type, page_count, override_names, override_address, override_salutation_name) ==
  IF info.raised # None THEN GenerationError
  ELSE letter_of(
         letter_type,
         format_names(IF override_names # <<>> THEN override_names[1]
                      ELSE info.full_names, <<>>),
         IF override_address # <<>> THEN override_address[1] ELSE info.address,
         page_counts(letter_type, page_count),
         salutation_names_to_use(override_salutation_name, info))

generate_letter(text, letter_type, page_count, override_names, override_address, override_salutation_name) ==
  IF letter_type \notin {"annual", "15-year"} THEN GenerationError
  ELSE letter_of_info(extract_names_and_address(text, letter_type), letter_type,
                      page_count, override_names, override_address,
                      override_salutation_name)

\* lines 333 to 351 once the names and the address to use are known
second_letter_of(names, address, salutation_names) ==
  IF names.raised # None THEN GenerationError
  ELSE Letter("second",
              names.header_names \o <<"\n">> \o format_address(address),
              salutation_names, <<>>, generate_filename(address))

second_letter_of_info(info, override_names, override_address, override_salutation_name) ==
  IF info.raised # None THEN GenerationError
  ELSE second_letter_of(
         format_names(IF override_names # <<>> THEN override_names[1]
                      ELSE info.full_names, <<>>),
         IF override_address # <<>> THEN override_address[1] ELSE info.address,
         salutation_names_to_use(override_salutation_name, info))

generate_second_letter(text, letter_type, override_names, override_address, override_salutation_name) ==
  IF letter_type \notin {"annual", "15-year"} THEN GenerationError
  ELSE second_letter_of_info(extract_names_and_address(text, letter_type),
                             override_names, override_address,
                             override_salutation_name)

(***************************************************************************)
(* The letters: generate_letter and generate_second_letter are called on   *)
(* the text of a document, its type and page count, and what the dialog    *)
(* returned, and format_names on names and an override.                    *)
(***************************************************************************)
LetterContents ==
  {<<>>,
   RE_ELECTRICAL_EQUIPMENT \o <<"\n">> \o I_WE \o <<" ">>
     \o JOHN_SMITH_AND_JANE_DOE \o <<"\n">> \o OF \o <<" ">> \o AMBLESIDE_ROAD
     \o GU18_5UH \o BEING_THE_OWNER,
   THIS_AGREEMENT \o <<" ", "i", "s", " ", "m", "a", "d", "e", "\n">>
     \o PARTY_1 \o <<" ">> \o A_AND_B_AND_C \o <<" ">> \o OF \o <<" ">>
     \o HIGH_STREET \o ME5_8UD \o THE_GRANTOR}

InitLetter ==
  /\ files = [d \in Dirs |-> {}]
  /\ marker = [d \in Dirs |-> FALSE]
  /\ listable = [d \in Dirs |-> TRUE]
  /\ caseInsensitive = FALSE
  /\ ScannerIdle
  /\ content \in LetterContents
  /\ extractor = None
  /\ outcome = Raised(None)
  /\ filename = <<>>
  /\ validated = FALSE
  /\ postcode_valid = FALSE
  /\ address_to_use = Address(<<>>, <<>>)
  /\ other_postcode = <<>>
  /\ filenames = <<>>
  /\ formatted_address = <<>>
  /\ names_to_use = MARY_ANNE_LEE
  /\ override_salutation \in Overrides
  /\ formatted_names = <<>>
  /\ salutation_found = <<>>
  /\ wayleave_type \in {"annual", "15-year", "unknown"}
  /\ doc_page_count \in 0..MaxPages
  /\ edited_names \in {<<>>, <<JOHN_SMITH>>}
  /\ edited_address \in {<<>>, <<Address(AMBLESIDE_ROAD_LINES, GU18_5UH)>>}
                          \cup {<<address>> : address \in EditedAddresses}
  /\ letter = <<>>
  /\ second_letter = <<>>
  /\ ClassifyIdle
  /\ ConvertIdle

GenerateLetter ==
  /\ letter = <<>>
  /\ letter' = <<generate_letter(content, wayleave_type, doc_page_count,
                                 edited_names, edited_address, override_salutation)>>
  /\ UNCHANGED <<scanVars, extractVars, formatVars, classifyVars, convertVars, wayleave_type, doc_page_count,
                 edited_names, edited_address, second_letter>>

GenerateSecondLetter ==
  /\ second_letter = <<>>
  /\ second_letter' = <<generate_second_letter(content, wayleave_type, edited_names,
                                               edited_address, override_salutation)>>
  /\ UNCHANGED <<scanVars, extractVars, formatVars, classifyVars, convertVars, wayleave_type, doc_page_count,
                 edited_names, edited_address, letter>>

NextLetter ==
  \/ GenerateLetter
  \/ GenerateSecondLetter
  \/ FormatNames

SpecLetter == InitLetter /\ [][NextLetter]_vars

(***************************************************************************)
(* Properties of the letters.                                              *)
(***************************************************************************)
LetterGenerated == letter # <<>> /\ letter[1].raised = None
SecondLetterGenerated == second_letter # <<>> /\ second_letter[1].raised = None

\* the number of the page to sign on: one less than the page count of an
\* annual document, the page count of a 15-year one
PageToSign == IF wayleave_type = "annual" THEN doc_page_count - 1 ELSE doc_page_count

\* C14: the page of "sign on the ... PAGE" in the letter is the ordinal
\* word, in capitals, of the page count less one for an annual document and
\* of the page count for a 15-year document: FOURTH and FIFTH for five pages.
C14_SignPageOrdinal ==
  LetterGenerated =>
    /\ PageToSign >= 0
    /\ letter[1].sign_page = upper(ordinals[PageToSign + 1])
    /\ (wayleave_type = "annual" /\ doc_page_count = 5) =>
         letter[1].sign_page = <<"F", "O", "U", "R", "T", "H">>
    /\ (wayleave_type = "15-year" /\ doc_page_count = 5) =>
         letter[1].sign_page = <<"F", "I", "F", "T", "H">>

C14_Witness ==
  /\ LetterGenerated
  /\ wayleave_type = "annual"
  /\ doc_page_count = 5
  /\ letter[1].sign_page = <<"F", "O", "U", "R", "T", "H">>

\* the salutation the extractor of the letter type found in the text
ExtractedSalutation ==
  extract_names_and_address(content, wayleave_type).salutation_name

\* C19: with an override of the salutation, the salutation of format_names,
\* of generate_letter and of generate_second_letter is that string as it
\* is; without one it is the salutation computed, by format_names from the
\* names and by the extractor from the text.
C19_OverrideSalutationAsGiven ==
  /\ (formatted_names # <<>> /\ formatted_names[1].raised = None) =>
       formatted_names[1].salutation_names =
         IF override_salutation # <<>> THEN override_salutation[1]
         ELSE JoinedWithAnd(FirstNamesTitled(People(names_to_use)))
  /\ LetterGenerated =>
       letter[1].salutation_names =
         IF override_salutation # <<>> THEN override_salutation[1]
         ELSE ExtractedSalutation
  /\ SecondLetterGenerated =>
       second_letter[1].salutation_names =
         IF override_salutation # <<>> THEN override_salutation[1]
         ELSE ExtractedSalutation

C19_Witness ==
  /\ formatted_names # <<>>
  /\ LetterGenerated
  /\ SecondLetterGenerated
  /\ override_salutation = <<MR_AND_MRS_SMITH>>
  /\ letter[1].salutation_names = MR_AND_MRS_SMITH
  /\ letter[1].salutation_names # ExtractedSalutation

(***************************************************************************)
(* Properties of get_pdf_files.                                            *)
(***************************************************************************)
\* the index of the first of the PDFs that analyze_pdf_type gives the type,
\* 0 without one
FirstOfType(pdfs, pdf_type) ==
  LET typed == {i \in 1..Len(pdfs) : analyze_pdf_type(pdfs[i]) = pdf_type}
  IN  IF typed = {} THEN 0 ELSE MinOf(typed)

\* the index of the first of the PDFs whose name is in the set, 0 without one
FirstNamed(pdfs, names) ==
  LET named == {i \in 1..Len(pdfs) : pdfs[i] \in names}
  IN  IF named = {} THEN 0 ELSE MinOf(named)

\* the PDFs but those at the indices to skip, in their order
Others(pdfs, skip) ==
  LET kept == SelectSeq([i \in 1..Len(pdfs) |-> i], LAMBDA i : i \notin skip)
  IN  [k \in 1..Len(kept) |-> pdfs[kept[k]]]

PdfAt(pdfs, i) == IF i = 0 THEN None ELSE pdfs[i]

\* one pass: the first MAP, the first DOCUMENT, and all the others
SinglePass(pdfs) ==
  PDFPair(PdfAt(pdfs, FirstOfType(pdfs, DOCUMENT)),
          PdfAt(pdfs, FirstOfType(pdfs, MAP)),
          Others(pdfs, {FirstOfType(pdfs, DOCUMENT), FirstOfType(pdfs, MAP)}))

\* the pair with a missing map taken from the others by its name
MapByName(pair) ==
  LET i == FirstNamed(pair.additional_pdfs,
                      {pdf \in PdfNames : PdfInfo(pdf).name_map})
  IN  IF pair.map_pdf # None \/ i = 0 THEN pair
      ELSE PDFPair(pair.document_pdf, pair.additional_pdfs[i],
                   Others(pair.additional_pdfs, {i}))

\* the pair with a missing document taken from the others by its name
DocumentByName(pair) ==
  LET i == FirstNamed(pair.additional_pdfs,
                      {pdf \in PdfNames : PdfInfo(pdf).name_doc_fill})
  IN  IF pair.document_pdf # None \/ i = 0 THEN pair
      ELSE PDFPair(pair.additional_pdfs[i], pair.map_pdf,
                   Others(pair.additional_pdfs, {i}))

\* the PDFs get_pdf_files finds in the directory, sorted
FolderPdfs(directory) ==
  IF listable[directory] THEN sorted_pdfs(directory) ELSE <<>>

\* C16 as stated: get_pdf_files assigns in one pass: the first PDF
\* classified MAP is the map, the first classified DOCUMENT the document,
\* and all the others are additional_pdfs whatever their type and name.
C16_SinglePassAssignment ==
  [][(pc = "visit" /\ pc' = "classified") => curPair' = SinglePass(FolderPdfs(cur'))]_vars

\* C16: get_pdf_files takes the first PDF classified MAP as the map and the
\* first classified DOCUMENT as the document, all the others being
\* additional_pdfs; then a map still missing is the first of the others
\* whose name holds lv., layout, map or plan, and a document still missing
\* the first of the others left whose name holds consent, agreement or
\* contract, each taken out of additional_pdfs.
C16_AssignmentThenNames ==
  [][(pc = "visit" /\ pc' = "classified") =>
       curPair' = DocumentByName(MapByName(SinglePass(FolderPdfs(cur'))))]_vars

C16_Witness ==
  /\ pc = "classified"
  /\ curPair.map_pdf # None
  /\ analyze_pdf_type(curPair.map_pdf) = UNKNOWN
  /\ curPair.document_pdf # None
  /\ curPair.additional_pdfs # <<>>

(***************************************************************************)
(* document_classifier.identify_wayleave_type.                             *)
(***************************************************************************)
annual_indicators ==
  <<<<"S", "C", "H", "E", "D", "U", "L", "E", " ", "O", "F", " ", "P", "A",
      "Y", "M", "E", "N", "T", "S">>,
    <<"£", " ", "p", "e", "r", " ", "a", "n", "n", "u", "m">>,
    <<"B", "a", "c", "k", " ", "P", "a", "y">>,
    <<"T", "h", "e", " ", "C", "o", "m", "p", "a", "n", "y", " ", "s", "h",
      "a", "l", "l", " ", "p", "a", "y", " ", "t", "o", " ", "m", "e", "/",
      "u", "s", " ", "d", "u", "r", "i", "n", "g", " ", "t", "h", "e", " ",
      "e", "x", "i", "s", "t", "e", "n", "c", "e", " ", "o", "f", " ", "t",
      "h", "e", " ", "w", "o", "r", "k", "s">>>>

fifteen_year_indicators ==
  <<<<"m", "e", "a", "n", "s", " ", "a", " ", "t", "e", "r", "m", " ", "c",
      "o", "m", "m", "e", "n", "c", "i", "n", "g", " ", "o", "n", " ", "t",
      "h", "e", " ", "d", "a", "t", "e", " ", "h", "e", "r", "e", "o", "f">>,
    <<"t", "h", "e", " ", "T", "e", "r", "m">>,
    <<"t", "h", "e", " ", "W", "a", "y", "l", "e", "a", "v", "e", " ", "P",
      "a", "y", "m", "e", "n", "t">>,
    <<"1", "5", " ", "y", "e", "a", "r", "s">>,
    <<"f", "o", "l", "l", "o", "w", "i", "n", "g", " ", "t", "h", "e", " ",
      "e", "x", "p", "i", "r", "y", " ", "o", "f", " ", "1", "5", " ", "y",
      "e", "a", "r", "s">>>>

PER_ANNUM == <<"£", " ", "p", "e", "r", " ", "a", "n", "n", "u", "m">>
THE_TERM_MEANS ==
  <<"\"", "t", "h", "e", " ", "T", "e", "r", "m", "\"", " ", "m", "e", "a",
    "n", "s">>

\* sum(1 for indicator in indicators if indicator in document_content)
matches(indicators, document_content) ==
  Cardinality({i \in 1..Len(indicators) : contains(document_content, indicators[i])})

wayleave_type_of_ties_annual(annual_matches, fifteen_year_matches, has_per_annum_payment, has_term_definition) ==
  IF annual_matches >= fifteen_year_matches \/ has_per_annum_payment THEN "annual"
  ELSE IF fifteen_year_matches > annual_matches \/ has_term_definition
    THEN "15-year"
  ELSE "unknown"

\* the decision of lines 36 to 41
wayleave_type_of(annual_matches, fifteen_year_matches, has_per_annum_payment, has_term_definition) ==
  IF annual_matches > fifteen_year_matches \/ has_per_annum_payment THEN "annual"
  ELSE IF fifteen_year_matches > annual_matches \/ has_term_definition
    THEN "15-year"
  ELSE "unknown"

identify_wayleave_type(document_content) ==
  wayleave_type_of(matches(annual_indicators, document_content),
                   matches(fifteen_year_indicators, document_content),
                   contains(document_content, PER_ANNUM),
                   contains(document_content, THE_TERM_MEANS))

(***************************************************************************)
(* The classifiers: analyze_pdf_type is called on a PDF file and           *)
(* identify_wayleave_type on a text, made of some of the sentences below,  *)
(* one on each line.                                                       *)
(***************************************************************************)
Sentences ==
  <<<<"S", "C", "H", "E", "D", "U", "L", "E", " ", "O", "F", " ", "P", "A",
      "Y", "M", "E", "N", "T", "S">>,
    <<"B", "a", "c", "k", " ", "P", "a", "y">>,
    <<"£", " ", "p", "e", "r", " ", "a", "n", "n", "u", "m">>,
    <<"t", "h", "e", " ", "W", "a", "y", "l", "e", "a", "v", "e", " ", "P",
      "a", "y", "m", "e", "n", "t">>,
    <<"f", "o", "l", "l", "o", "w", "i", "n", "g", " ", "t", "h", "e", " ",
      "e", "x", "p", "i", "r", "y", " ", "o", "f", " ", "1", "5", " ", "y",
      "e", "a", "r", "s">>,
    <<"\"", "t", "h", "e", " ", "T", "e", "r", "m", "\"", " ", "m", "e", "a",
      "n", "s">>,
    <<"m", "e", "a", "n", "s", " ", "a", " ", "t", "e", "r", "m", " ", "c",
      "o", "m", "m", "e", "n", "c", "i", "n", "g", " ", "o", "n", " ", "t",
      "h", "e", " ", "d", "a", "t", "e", " ", "h", "e", "r", "e", "o", "f">>>>

RECURSIVE TextOf(_, _)
TextOf(chosen, i) ==
  IF i > Len(Sentences) THEN <<>>
  ELSE (IF i \in chosen THEN Sentences[i] \o <<"\n">> ELSE <<>>) \o TextOf(chosen, i + 1)

WayleaveTexts == {TextOf(chosen, 1) : chosen \in SUBSET (1..Len(Sentences))}

InitClassify ==
  /\ files = [d \in Dirs |-> {}]
  /\ marker = [d \in Dirs |-> FALSE]
  /\ listable = [d \in Dirs |-> TRUE]
  /\ caseInsensitive = FALSE
  /\ ScannerIdle
  /\ ExtractIdle
  /\ FormatIdle
  /\ LetterIdle
  /\ ConvertIdle
  /\ \/ classified_pdf \in PdfNames /\ wayleave_text = <<>>
     \/ classified_pdf = LetterPdf /\ wayleave_text \in WayleaveTexts
  /\ classified_type = None
  /\ identified_type = None

AnalyzePdfType ==
  /\ classified_type = None
  /\ classified_type' = analyze_pdf_type(classified_pdf)
  /\ UNCHANGED <<scanVars, extractVars, formatVars, letterVars, convertVars, classified_pdf,
                 wayleave_text, identified_type>>

IdentifyWayleaveType ==
  /\ identified_type = None
  /\ identified_type' = identify_wayleave_type(wayleave_text)
  /\ UNCHANGED <<scanVars, extractVars, formatVars, letterVars, convertVars, classified_pdf,
                 wayleave_text, classified_type>>

NextClassify ==
  \/ AnalyzePdfType
  \/ IdentifyWayleaveType

SpecClassify == InitClassify /\ [][NextClassify]_vars

(***************************************************************************)
(* Properties of the classifiers.                                          *)
(***************************************************************************)
\* what analyze_pdf_type reads of the PDF: nothing of a file fitz cannot open
Read(pdf) ==
  IF PdfInfo(pdf).openable THEN PdfInfo(pdf)
  ELSE [PdfInfo(pdf) EXCEPT !.doc_keywords = 0, !.map_keywords = 0,
                            !.word_count = 0, !.is_map_like = FALSE]

\* the document score: the keywords, 2 for a name of a document and 2 for
\* more than 300 words
DocumentScore(pdf) ==
  Read(pdf).doc_keywords + (IF Read(pdf).name_doc THEN 2 ELSE 0)
    + (IF Read(pdf).word_count > 300 THEN 2 ELSE 0)

\* the map score: the keywords, 2 for a name of a map, 3 for images like a
\* map and 2 more for such images with fewer than 100 words
MapScore(pdf) ==
  Read(pdf).map_keywords + (IF Read(pdf).name_map THEN 2 ELSE 0)
    + (IF Read(pdf).is_map_like THEN 3 ELSE 0)
    + (IF Read(pdf).is_map_like /\ Read(pdf).word_count < 100 THEN 2 ELSE 0)

\* C15: analyze_pdf_type gives MAP only when the map score is higher than
\* the document score and at least 3, DOCUMENT only when the document score
\* is higher than the map score and at least 3, and UNKNOWN in every other
\* case: equal scores, a winning score below 3, a PDF that cannot be read.
C15_TypeOfScores ==
  classified_type # None =>
    classified_type =
      IF MapScore(classified_pdf) > DocumentScore(classified_pdf)
           /\ MapScore(classified_pdf) >= 3
        THEN MAP
      ELSE IF DocumentScore(classified_pdf) > MapScore(classified_pdf)
                /\ DocumentScore(classified_pdf) >= 3
        THEN DOCUMENT
      ELSE UNKNOWN

\* a tie of scores of 3 and more gave UNKNOWN
C15_Witness ==
  /\ classified_type = UNKNOWN
  /\ MapScore(classified_pdf) = DocumentScore(classified_pdf)
  /\ MapScore(classified_pdf) >= 3

\* the number of the phrases of a dialect that the text holds
AnnualCount ==
  Cardinality({i \in 1..Len(annual_indicators) :
                 contains(wayleave_text, annual_indicators[i])})
FifteenYearCount ==
  Cardinality({i \in 1..Len(fifteen_year_indicators) :
                 contains(wayleave_text, fifteen_year_indicators[i])})

\* the text holds one of the two distinctive phrases
Distinctive ==
  \/ contains(wayleave_text, PER_ANNUM)
  \/ contains(wayleave_text, THE_TERM_MEANS)

max_retries == 3

\* the directory of the letter: it may not exist, or not be writable
OutputDirs == {"writable", "read-only", "missing"}

\* terminate_word_processes uses psutil, or taskkill, which the system may
\* not have
WordKillers == {"psutil", "taskkill", "no taskkill"}

InitConvert ==
  /\ files = [d \in Dirs |-> {}]
  /\ marker = [d \in Dirs |-> FALSE]
  /\ listable = [d \in Dirs |-> TRUE]
  /\ caseInsensitive = FALSE
  /\ ScannerIdle
  /\ ExtractIdle
  /\ FormatIdle
  /\ LetterIdle
  /\ ClassifyIdle
  /\ output_dir \in OutputDirs
  /\ output_pdf_exists \in BOOLEAN
  /\ word_killer \in WordKillers
  /\ convert_pc = "create"
  /\ attempts = 0
  /\ docx_created = 0
  /\ terminations = 0
  /\ attempt_succeeded = FALSE
  /\ converted = None
  /\ success_count = 0
  /\ error_count = 0

\* create_word_letter(letter_content, docx_path): it raises when the
\* directory is missing and may raise otherwise
CreateWordLetter ==
  /\ convert_pc = "create"
  /\ \/ /\ output_dir # "missing"
        /\ docx_created' = docx_created + 1
        /\ convert_pc' = "check"
        /\ UNCHANGED converted
     \/ /\ convert_pc' = "done"
        /\ converted' = "raised"
        /\ UNCHANGED docx_created
  /\ UNCHANGED <<scanVars, extractVars, formatVars, letterVars, classifyVars,
                 success_count, error_count,
                 output_dir, output_pdf_exists, word_killer, attempts,
                 terminations, attempt_succeeded>>

\* output_dir.exists() and os.access(output_dir, os.W_OK)
CheckOutputDir ==
  /\ convert_pc = "check"
  /\ IF output_dir = "writable"
       THEN convert_pc' = "attempt" /\ UNCHANGED converted
       ELSE convert_pc' = "done" /\ converted' = "raised"
  /\ UNCHANGED <<scanVars, extractVars, formatVars, letterVars, classifyVars,
                 success_count, error_count,
                 output_dir, output_pdf_exists, word_killer, attempts,
                 docx_created, terminations, attempt_succeeded>>

\* one pass of the loop: convert(docx_path, output_path) returns, and the
\* function with it, or raises
Convert ==
  /\ convert_pc = "attempt"
  /\ attempts < max_retries
  /\ attempts' = attempts + 1
  /\ \/ /\ output_pdf_exists' = TRUE
        /\ attempt_succeeded' = TRUE
        /\ converted' = "returned"
        /\ convert_pc' = "done"
     \/ /\ convert_pc' = "terminate"
        /\ UNCHANGED <<output_pdf_exists, attempt_succeeded, converted>>
  /\ UNCHANGED <<scanVars, extractVars, formatVars, letterVars, classifyVars,
                 success_count, error_count,
                 output_dir, word_killer, docx_created, terminations>>

\* the handler of the loop without terminate_word_processes
RetryWithoutTerminating ==
  /\ convert_pc = "terminate"
  /\ convert_pc' = "attempt"
  /\ UNCHANGED <<scanVars, extractVars, formatVars, letterVars, classifyVars,
                 success_count, error_count,
                 output_dir, output_pdf_exists, word_killer, attempts,
                 docx_created, terminations, attempt_succeeded, converted>>

\* the handler of the loop: terminate_word_processes, then time.sleep(2);
\* the FileNotFoundError of a missing taskkill is not caught there
TerminateWordProcesses ==
  /\ convert_pc = "terminate"
  /\ terminations' = terminations + 1
  /\ IF word_killer = "no taskkill"
       THEN convert_pc' = "done" /\ converted' = "raised"
       ELSE convert_pc' = "attempt" /\ UNCHANGED converted
  /\ UNCHANGED <<scanVars, extractVars, formatVars, letterVars, classifyVars,
                 success_count, error_count,
                 output_dir, output_pdf_exists, word_killer, attempts,
                 docx_created, attempt_succeeded>>

\* after the loop: if not output_path.exists(): raise GenerationError
CheckPdfCreated ==
  /\ convert_pc = "attempt"
  /\ attempts = max_retries
  /\ convert_pc' = "done"
  /\ converted' = IF output_pdf_exists THEN "returned" ELSE "raised"
  /\ UNCHANGED <<scanVars, extractVars, formatVars, letterVars, classifyVars,
                 success_count, error_count,
                 output_dir, output_pdf_exists, word_killer, attempts,
                 docx_created, terminations, attempt_succeeded>>

\* LetterSection.generate_all_letters around the call: the letter counts as
\* generated when convert_pdf_letter returned, as failed when it raised
CountLetter ==
  /\ convert_pc = "done"
  /\ convert_pc' = "counted"
  /\ IF converted = "returned"
       THEN success_count' = success_count + 1 /\ UNCHANGED error_count
       ELSE error_count' = error_count + 1 /\ UNCHANGED success_count
  /\ UNCHANGED <<scanVars, extractVars, formatVars, letterVars, classifyVars,
                 output_dir, output_pdf_exists, word_killer, attempts,
                 docx_created, terminations, attempt_succeeded, converted>>

NextConvert ==
  \/ CreateWordLetter
  \/ CheckOutputDir
  \/ Convert
  \/ TerminateWordProcesses
  \/ CheckPdfCreated
  \/ CountLetter

SpecConvert == InitConvert /\ [][NextConvert]_vars

(***************************************************************************)
(* Properties of convert_pdf_letter.                                       *)
(***************************************************************************)
\* C24: convert_pdf_letter calls convert at most 3 times, never again
\* after a call that succeeded, and each time after the first only when
\* terminate_word_processes has run since the failure before; the Word
\* document is created once, before the first call.
C24_ThreeAttemptsTerminatingBetween ==
  /\ [](/\ attempts <= 3
        /\ docx_created <= 1
        /\ attempt_succeeded => convert_pc \in {"done", "counted"})
  /\ [][attempts' # attempts =>
          /\ attempts' = attempts + 1
          /\ ~attempt_succeeded
          /\ docx_created = 1
          /\ terminations = attempts]_vars
  /\ [][docx_created' # docx_created => attempts = 0]_vars

\* the third call of convert succeeded, after two failures and two calls
\* of terminate_word_processes
C24_Witness ==
  /\ attempts = 3
  /\ attempt_succeeded
  /\ terminations = 2
  /\ docx_created = 1
  /\ converted = "returned"

\* C30: convert_pdf_letter returns only if one of its calls of convert
\* succeeded; when all fail it raises GenerationError, also with a file of
\* an earlier run at the output path, so that generate_all_letters counts
\* no letter as generated that this call did not write.
C30_ReturnsOnlyAfterSuccess ==
  /\ converted = "returned" => attempt_succeeded
  /\ success_count > 0 => attempt_succeeded

(***************************************************************************)
(* Properties of the salutation of the extractors.                         *)
(***************************************************************************)
\* the persons named in the names: what stands between " AND " and " & "
RECURSIVE Persons(_)
Persons(names) ==
  LET and_at == find(names, <<" ", "A", "N", "D", " ">>, 1)
      ampersand_at == find(names, <<" ", "&", " ">>, 1)
      at == IF and_at = 0 THEN ampersand_at
            ELSE IF ampersand_at = 0 THEN and_at
            ELSE MinOf({and_at, ampersand_at})
      after == IF at = and_at THEN at + 5 ELSE at + 3
      person == strip(IF at = 0 THEN names ELSE SubSeq(names, 1, at - 1))
  IN  (IF person = <<>> THEN <<>> ELSE <<person>>)
        \o (IF at = 0 THEN <<>> ELSE Persons(SubSeq(names, after, Len(names))))

\* an extractor returned names that hold a person
NamesExtracted ==
  /\ extractor \in {"annual", "15-year"}
  /\ outcome.raised = None
  /\ Persons(outcome.full_names) # <<>>

\* C20: the salutation_name an extractor returns has one entry for each
\* person of full_names, the persons standing between " AND " and " & ":
\* the first word of the person's name with a capital first letter, the
\* entries joined by ", " and " and ".
C20_SalutationOnePerPerson ==
  NamesExtracted =>
    outcome.salutation_name =
      JoinedWithAnd(FirstNamesCapitalized(Persons(outcome.full_names)))

\* the names of the text are "ROLAND SMITH AND JANE DOE" on a line of their
\* own and the salutation is that of three persons
C20_RolandSplit ==
  /\ NamesExtracted
  /\ outcome.full_names = ROLAND_SMITH_AND_JANE_DOE
  /\ outcome.salutation_name =
       <<"R", "o", "l", ",", " ", "S", "m", "i", "t", "h", " ", "a", "n", "d", " ",
         "J", "a", "n", "e">>

(***************************************************************************)
(* Properties of the scans of the main window.                             *)
(***************************************************************************)
\* the scans started whose result has not been handled
ScansInFlight == scans - finished

\* C21: at most one scan is in flight: the select button is disabled from
\* the start of a scan until its result is handled, the ScannerThread works
\* only in between, and so no second scan is started meanwhile.
C21_OneScanInFlight ==
  /\ ScansInFlight \in {0, 1}
  /\ selectEnabled <=> ScansInFlight = 0
  /\ pc # "idle" => ScansInFlight = 1

\* the second scan is at work on a folder and the button is disabled
C21_Witness ==
  /\ scans = 2
  /\ finished = 1
  /\ pc = "classified"
  /\ ~selectEnabled

\* the marker of the folder is written in this step
MarkerWritten(d) == ~marker[d] /\ marker'[d]

\* the folders the running scan has classified and recorded
Recorded == Paths(results)

\* C22: a marker is written only when get_pdf_files has returned the pair
\* of all the PDFs of the folder and the folder got a result entry; a folder
\* without PDFs and without marker gets no marker; and wherever a scan
\* stops, the folders it has not finished classifying have the marker they
\* had when it started.
C22_MarkerAfterClassification ==
  /\ [][\A d \in Dirs : MarkerWritten(d) =>
          /\ pc = "classified"
          /\ cur = d
          /\ curPair = get_pdf_files(d)
          /\ relative_path(d) \in Paths(results')
          /\ files[d] # {}]_vars
  /\ [](pc \in {"visit", "classified", "recorded"} =>
          \A d \in Dirs : marker[d] # markerAtStart[d] => relative_path(d) \in Recorded)

\* the scan has written the marker of one folder and has still to classify
\* another folder with PDFs and no marker
C22_Witness ==
  /\ pc = "visit"
  /\ \E d \in Dirs : marker[d] /\ ~markerAtStart[d]
  /\ \E i \in 1..Len(stack) : files[stack[i]] # {} /\ ~marker[stack[i]]

\* the PDFs of the entries displayed
DisplayedPdfs == UNION {PairPdfs(resultTree[i].pair) : i \in 1..Len(resultTree)}

\* C23: a PDF that cannot be opened is in no entry of the results of a
\* scan, neither as the document, nor as the map, nor among the additional
\* PDFs of its folder, whatever its name.
C23_UnopenablePdfExcluded ==
  \A pdf \in DisplayedPdfs : PdfInfo(pdf).openable

(***************************************************************************)
(* The scan under the scheduling of the program: the ScannerThread, once   *)
(* started, keeps running, and the event loop of the window delivers the   *)
(* signal it emitted.                                                      *)
(***************************************************************************)
\* the step of ClassifyFolder as pc shows it: under Next no other step
\* takes pc from "visit" to "classified", and ClassifyFolder is enabled
\* wherever a directory is left on the stack
ClassifyFolderTaken ==
  /\ pc = "visit"
  /\ stack # <<>>
  /\ pc' = "classified"

SpecLive ==
  /\ Spec
  /\ WF_pc(ClassifyFolderTaken)
  /\ WF_vars(RecordFolder)
  /\ WF_vars(ListSubdirs)
  /\ WF_vars(ThreadFinish)
  /\ WF_vars(HandleScanResults)

\* C25: a scan that was started ends: its thread emits scan_finished, once,
\* the window handles that one result, and the select button, disabled by
\* the start of the scan, is enabled again.
C25_ScanCompletes ==
  /\ (pc = "visit" /\ ~selectEnabled) ~> (pc = "emitted")
  /\ (pc = "emitted") ~> (pc = "idle" /\ selectEnabled /\ finished = scans)
  /\ [][(pc' = "emitted" /\ pc # "emitted") =>
          /\ scans = finished + 1
          /\ emitted' = (IF raised THEN <<>> ELSE results)]_vars
  /\ [][(pc = "emitted" /\ pc' # "emitted") =>
          /\ pc' = "idle"
          /\ selectEnabled'
          /\ finished' = finished + 1
          /\ resultTree' = display_results(emitted)]_vars

\* the result of a scan over two folders with PDFs has been handled and the
\* button is enabled
C25_Witness ==
  /\ pc = "idle"
  /\ finished = 1
  /\ scans = 1
  /\ selectEnabled
  /\ Len(resultTree) >= 2

\* how many times the PDF is reported in the pair
Occurrences(pair, pdf) ==
  (IF pair.document_pdf = pdf THEN 1 ELSE 0)
  + (IF pair.map_pdf = pdf THEN 1 ELSE 0)
  + Cardinality({i \in 1..Len(pair.additional_pdfs) : pair.additional_pdfs[i] = pdf})

\* C26: the pair get_pdf_files returns for a folder holds each PDF file of
\* the folder once, as the document, as the map or among the additional
\* PDFs, and holds no other file, also where "*.pdf" and "*.PDF" match the
\* same files.
C26_EachPdfOnce ==
  (pc = "classified" /\ listable[cur]) =>
    \A pdf \in PdfNames :
      Occurrences(curPair, pdf) = (IF pdf \in files[cur] THEN 1 ELSE 0)

\* the same where the two patterns match different files
C26_EachPdfOnceCaseSensitive == ~caseInsensitive => C26_EachPdfOnce

\* the folder items displayed for folders with PDFs
ItemsWithPdfs ==
  {i \in 1..Len(resultTree) : PairPdfs(resultTree[i].pair) # {}}

PagesOfDocument == {upper(ordinals[n + 1]) : n \in 1..doc_page_count}

\* C28: the page a returned letter tells the reader to sign on is a page of
\* the document, between the first and the last, for both letter types and
\* every document of at least one page.
C28_SignPageWithinDocument ==
  (LetterGenerated /\ doc_page_count >= 1) =>
    letter[1].sign_page \in PagesOfDocument

\* the same for documents of two pages or more, and for 15-year documents
C28_SignPageWithinLongerDocument ==
  (LetterGenerated /\ (doc_page_count >= 2 \/ (wayleave_type = "15-year" /\ doc_page_count >= 1))) =>
    letter[1].sign_page \in PagesOfDocument

\* names, address and salutation are all given by the dialog
AllOverridden ==
  /\ edited_names # <<>>
  /\ edited_address # <<>>
  /\ override_salutation # <<>>

\* the letters made of the overrides alone, without the text
LetterOfOverrides ==
  letter_of(wayleave_type, format_names(edited_names[1], <<>>),
            edited_address[1], page_counts(wayleave_type, doc_page_count),
            override_salutation[1])
SecondLetterOfOverrides ==
  second_letter_of(format_names(edited_names[1], <<>>), edited_address[1],
                   override_salutation[1])

\* C29: with names, address and salutation all overridden, the letter and
\* the second letter of a document of a known type are the ones made of the
\* overrides alone, whatever the text: no error of the extraction reaches
\* the caller.
C29_OverridesAlone ==
  (AllOverridden /\ wayleave_type \in {"annual", "15-year"}) =>
    /\ letter # <<>> => letter[1] = LetterOfOverrides
    /\ second_letter # <<>> => second_letter[1] = SecondLetterOfOverrides

\* the same for the texts the extractor of the type accepts
C29_OverridesAloneOnceExtracted ==
  (/\ AllOverridden
   /\ wayleave_type \in {"annual", "15-year"}
   /\ extract_names_and_address(content, wayleave_type).raised = None) =>
    /\ letter # <<>> => letter[1] = LetterOfOverrides
    /\ second_letter # <<>> => second_letter[1] = SecondLetterOfOverrides

\* the overrides alone make a letter, and the call raises
C29_RaisedDespiteOverrides ==
  /\ AllOverridden
  /\ wayleave_type \in {"annual", "15-year"}
  /\ LetterOfOverrides.raised = None
  /\ letter # <<>>
  /\ letter[1].raised # None

=============================================================================
